---- MODULE Spec2Model ----
(***************************************************************************)
(* Model of the compressed_collections crate: the chunked compressing     *)
(* vector (CVec / CVecRc / CVecUncached), its single-slot caches, its     *)
(* iterators and its whole-structure (de)serialization, the Stack and the *)
(* Deque.  Every container is driven in lockstep with the plain Vec or    *)
(* VecDeque the crate's tests compare it with (`reference`).              *)
(*                                                                         *)
(* Elements are one-byte integers (T = u8), so that postcard writes an    *)
(* element as the byte itself and a length as a one-byte varint.          *)
(* Rust indices are 0-based, TLA+ sequences 1-based: Rust v[i] is v[i+1]. *)
(***************************************************************************)
EXTENDS Integers, Sequences, FiniteSets, TLC

\* ---------------------------------------------------------------- bounds
MaxLen == 4
MaxChunkElems == 3
MaxIters == 2
MaxHandles == 2
MaxPushes == 6
MaxDerefs == 2

\* the element type T: a two-valued byte
Elems == {0, 1}
ChunkCapacities == 1..MaxChunkElems
Indices == 0..(MaxLen + 1)

\* ------------------------------------------------------- program constants
\* usize::MAX, the index of an empty cache slot; represented by the largest
\* integer the checker handles.
USIZE_MAX == 2147483647
\* the two ends of the quality range accepted by COMPRESSION_LEVEL_CHECK
Qualities == {0, 11}
Strategies == {"Uncached", "Cached", "RcCached"}
\* values of the const generic COMPRESSION_LEVEL: i32 on both sides of each
\* end of the accepted range
AnyQualities == {-1, 0, 11, 12}
\* values of the const generic CHUNK_ELEMS: usize, 0 included
AnyChunkCapacities == 0..MaxChunkElems
\* the finite sequences a container is collected from
InputSequences == UNION {[1..k -> Elems] : k \in 0..MaxLen}

\* ------------------------------------------------------------ Option<T>
None == <<>>
Some(x) == <<x>>
is_some(o) == o # <<>>
is_none(o) == o = <<>>
unwrap(o) == o[1]

\* a panic (abort) of the program, with what it carries
NoPanic == [kind |-> "none", observed |-> 0, expected |-> 0]
Panic(k, obs, exp) == [kind |-> k, observed |-> obs, expected |-> exp]

\* ------------------------------------------------------------ sequences
Last(s) == s[Len(s)]
Front(s) == SubSeq(s, 1, Len(s) - 1)
RECURSIVE Reverse(_)
Reverse(s) == IF s = <<>> THEN <<>> ELSE Append(Reverse(Tail(s)), Head(s))
RECURSIVE Concat(_)
Concat(ss) == IF ss = <<>> THEN <<>> ELSE Head(ss) \o Concat(Tail(ss))

\* ---------------------------------------------------------------- codec
\* postcard::to_stdvec of a Vec<u8>, a Box<[u8]> or a [u8]: the length as a
\* varint (one byte below 128), then the elements.
to_stdvec_seq(xs) == <<Len(xs)>> \o xs

\* postcard reading one length-prefixed sequence off the front of `bytes`
\* (Err: DeserializeUnexpectedEnd).
take_seq(bytes) ==
    IF bytes = <<>> \/ Len(bytes) < bytes[1] + 1
    THEN [ok |-> FALSE, val |-> <<>>, rest |-> <<>>]
    ELSE [ok |-> TRUE, val |-> SubSeq(bytes, 2, bytes[1] + 1),
          rest |-> SubSeq(bytes, bytes[1] + 2, Len(bytes))]

RECURSIVE take_seqs(_, _)
take_seqs(bytes, n) ==
    IF n = 0 THEN [ok |-> TRUE, val |-> <<>>, rest |-> bytes]
    ELSE LET h == take_seq(bytes) IN
         IF ~h.ok THEN [ok |-> FALSE, val |-> <<>>, rest |-> <<>>]
         ELSE LET t == take_seqs(h.rest, n - 1) IN
              IF ~t.ok THEN [ok |-> FALSE, val |-> <<>>, rest |-> <<>>]
              ELSE [ok |-> TRUE, val |-> <<h.val>> \o t.val, rest |-> t.rest]

\* The brotli stream: an external codec, modelled as a one-byte header that
\* depends on the encoder parameters followed by the payload; the decoder
\* needs no parameters and drops the header.
BrotliHeader(quality) == 128 + quality
CompressorWriter(serialized, quality) == <<BrotliHeader(quality)>> \o serialized
DecompressorWriter(x) == IF x = <<>> THEN <<>> ELSE Tail(x)

\* compress::<Vec<T>>
compress(xs, compression_level) ==
    CompressorWriter(to_stdvec_seq(xs), compression_level)

\* decompress::<Vec<T>>: postcard::from_bytes(..).unwrap()
decompress(x) ==
    LET r == take_seq(DecompressorWriter(x)) IN
    IF r.ok THEN [panic |-> NoPanic, val |-> r.val]
    ELSE [panic |-> Panic("unwrap_err", 0, 0), val |-> <<>>]

\* <CacheLine as Deserialize>::deserialize: a Vec<T>, then try_into the
\* array [T; CHUNK_ELEMS]; Err(invalid_length(observed, expected)) otherwise.
CacheLine_deserialize(bytes, chunk_elems) ==
    LET r == take_seq(bytes) IN
    IF ~r.ok THEN [ok |-> FALSE, err |-> Panic("unwrap_err", 0, 0), val |-> <<>>]
    ELSE IF Len(r.val) = chunk_elems
         THEN [ok |-> TRUE, err |-> NoPanic, val |-> r.val]
         ELSE [ok |-> FALSE,
               err |-> Panic("invalid_length", Len(r.val), chunk_elems),
               val |-> <<>>]

\* decompress::<CacheLine<T, CHUNK_ELEMS>>: the Err is unwrapped, a panic
decompress_CacheLine(x, chunk_elems) ==
    LET r == CacheLine_deserialize(DecompressorWriter(x), chunk_elems) IN
    [panic |-> r.err, val |-> r.val]

\* ---------------------------------------------------------------- cache
\* Cached { index, data }; `borrow` is the RefCell flag of RcCached (0: not
\* borrowed, n > 0: n shared borrows, -1: exclusively borrowed).  Uncached
\* is a unit struct: its slot stays at the default and is never read.
Cached_default == [index |-> USIZE_MAX, data |-> None, borrow |-> 0]

\* is_cached without the index comparison
Cached_is_cached_any(cache, index) == is_some(cache.data)

\* <Cached as Cache>::is_cached
Cached_is_cached(cache, index) == is_some(cache.data) /\ cache.index = index

\* Cache::is_cached for the three strategies
is_cached(strat, cache, index) ==
    IF strat = "Uncached" THEN FALSE ELSE Cached_is_cached(cache, index)

\* Cache::kill_all for the three strategies
kill_all(strat, cache) ==
    IF strat = "Uncached" THEN cache ELSE Cached_default

\* fill_cache that stores the decoded chunk under the index the slot had
fill_cache_keep_index(cache, index, data, chunk_elems) ==
    LET d == decompress_CacheLine(data, chunk_elems) IN
    IF d.panic.kind # "none"
    THEN [panic |-> d.panic, cache |-> cache, decodes |-> 1]
    ELSE [panic |-> NoPanic, decodes |-> 1,
          cache |-> [cache EXCEPT !.data = Some(d.val)]]

\* Cached::fill_cache; `decodes` is the number of chunks the call has decoded
fill_cache(cache, index, data, chunk_elems) ==
    LET d == decompress_CacheLine(data, chunk_elems) IN
    IF d.panic.kind # "none"
    THEN [panic |-> d.panic, decodes |-> 1,
          cache |-> [cache EXCEPT !.index = index]]
    ELSE [panic |-> NoPanic, decodes |-> 1,
          cache |-> [cache EXCEPT !.index = index, !.data = Some(d.val)]]

\* get_compressed that fills an empty slot only and reads past a slot
\* that holds another chunk
Cached_get_compressed_keep_filled(cache, index, offset, data, chunk_elems) ==
    IF is_some(cache.data) /\ cache.index # index
    THEN LET d == decompress_CacheLine(data, chunk_elems) IN
         [panic |-> d.panic, cache |-> cache, decodes |-> 1,
          ret |-> IF d.panic.kind # "none" THEN None
                  ELSE Some(d.val[offset + 1])]
    ELSE LET f == IF ~Cached_is_cached(cache, index)
                  THEN fill_cache(cache, index, data, chunk_elems)
                  ELSE [panic |-> NoPanic, cache |-> cache, decodes |-> 0] IN
         IF f.panic.kind # "none"
         THEN [panic |-> f.panic, cache |-> f.cache, ret |-> None,
               decodes |-> f.decodes]
         ELSE [panic |-> NoPanic, cache |-> f.cache, decodes |-> f.decodes,
               ret |-> Some(unwrap(f.cache.data)[offset + 1])]

\* get_compressed that fills the slot at every call
Cached_get_compressed_always_fill(cache, index, offset, data, chunk_elems) ==
    LET f == fill_cache(cache, index, data, chunk_elems) IN
    IF f.panic.kind # "none"
    THEN [panic |-> f.panic, cache |-> f.cache, ret |-> None,
          decodes |-> f.decodes]
    ELSE [panic |-> NoPanic, cache |-> f.cache, decodes |-> f.decodes,
          ret |-> Some(unwrap(f.cache.data)[offset + 1])]

\* <Cached as CacheAccess>::get_compressed
Cached_get_compressed(cache, index, offset, data, chunk_elems) ==
    LET f == IF ~Cached_is_cached(cache, index)
             THEN fill_cache(cache, index, data, chunk_elems)
             ELSE [panic |-> NoPanic, cache |-> cache, decodes |-> 0] IN
    IF f.panic.kind # "none"
    THEN [panic |-> f.panic, cache |-> f.cache, ret |-> None,
          decodes |-> f.decodes]
    ELSE [panic |-> NoPanic, cache |-> f.cache, decodes |-> f.decodes,
          ret |-> Some(unwrap(f.cache.data)[offset + 1])]

\* RefCell::borrow / RefCell::borrow_mut / drop of a Ref or RefMut
\* borrow that fails on a cell that is borrowed at all
RefCell_borrow_exclusive(cache) ==
    IF cache.borrow # 0
    THEN [panic |-> Panic("already_mutably_borrowed", 0, 0), cache |-> cache]
    ELSE [panic |-> NoPanic, cache |-> [cache EXCEPT !.borrow = @ + 1]]
RefCell_borrow(cache) ==
    IF cache.borrow < 0
    THEN [panic |-> Panic("already_mutably_borrowed", 0, 0), cache |-> cache]
    ELSE [panic |-> NoPanic, cache |-> [cache EXCEPT !.borrow = @ + 1]]
\* borrow_mut that takes the cell whatever its borrow flag; the shared
\* borrows that were alive stay counted when the RefMut is dropped
RefCell_borrow_mut_unchecked(cache) ==
    [panic |-> NoPanic, cache |-> cache]
RefCell_borrow_mut(cache) ==
    IF cache.borrow # 0
    THEN [panic |-> Panic("already_borrowed", 0, 0), cache |-> cache]
    ELSE [panic |-> NoPanic, cache |-> [cache EXCEPT !.borrow = -1]]
Ref_drop(cache) == [cache EXCEPT !.borrow = @ - 1]
RefMut_drop(cache) == [cache EXCEPT !.borrow = 0]

\* the outcome r of a borrow, of a call that has decoded n chunks
decoding(r, n) == [panic |-> r.panic, cache |-> r.cache, decodes |-> n]

\* <RcCached as RcCacheAccess>::get_compressed: the Entry, a plain value
\* built from the arguments (`data` is the chunk at `index`)
RcCached_get_compressed(index, offset) ==
    [kind |-> "Compressed", index |-> index, offset |-> offset]

\* Entry::borrow that fills the slot whether it mirrors the chunk or not
Entry_borrow_always_fill(cache, index, offset, data, chunk_elems) ==
    LET b2 == RefCell_borrow_mut(cache) IN
    IF b2.panic.kind # "none"
    THEN [panic |-> b2.panic, cache |-> cache, decodes |-> 0]
    ELSE
    LET f == fill_cache(b2.cache, index, data, chunk_elems) IN
    IF f.panic.kind # "none" THEN f
    ELSE decoding(RefCell_borrow(RefMut_drop(f.cache)), f.decodes)

\* Entry::borrow on Entry::Compressed { cache, index, offset, data }: the
\* result holds the slot with the shared borrow of the returned EntryRef.
Entry_borrow(cache, index, offset, data, chunk_elems) ==
    LET b1 == RefCell_borrow(cache) IN
    IF b1.panic.kind # "none"
    THEN [panic |-> b1.panic, cache |-> cache, decodes |-> 0]
    ELSE
    LET hit == Cached_is_cached(b1.cache, index)
        c1 == Ref_drop(b1.cache) IN
    IF hit THEN decoding(RefCell_borrow(c1), 0)
    ELSE
    LET b2 == RefCell_borrow_mut(c1) IN
    IF b2.panic.kind # "none"
    THEN [panic |-> b2.panic, cache |-> c1, decodes |-> 0]
    ELSE
    LET f == fill_cache(b2.cache, index, data, chunk_elems) IN
    IF f.panic.kind # "none" THEN f
    ELSE decoding(RefCell_borrow(RefMut_drop(f.cache)), f.decodes)

\* <EntryRef as Deref>::deref on EntryRef::Compressed { cache, offset }
EntryRef_deref(cache, offset) == unwrap(cache.data)[offset + 1]

\* ----------------------------------------------------------------- CVec
\* struct CVec { compressed_storage, uncompressed_buffer, cache }
CVec_default ==
    [compressed_storage |-> <<>>, uncompressed_buffer |-> <<>>,
     cache |-> Cached_default]

\* push flushing one element late (`>` for `>=`)
CVec_push_late(c, value, chunk_elems, compression_level) ==
    LET buf == Append(c.uncompressed_buffer, value) IN
    IF Len(buf) > chunk_elems
    THEN [c EXCEPT !.compressed_storage =
                       Append(@, compress(buf, compression_level)),
                   !.uncompressed_buffer = <<>>]
    ELSE [c EXCEPT !.uncompressed_buffer = buf]

\* push that stores the full tail as a chunk and keeps it as the tail too
CVec_push_keep_tail(c, value, chunk_elems, compression_level) ==
    LET buf == Append(c.uncompressed_buffer, value) IN
    IF Len(buf) >= chunk_elems
    THEN [c EXCEPT !.compressed_storage =
                       Append(@, compress(buf, compression_level)),
                   !.uncompressed_buffer = buf]
    ELSE [c EXCEPT !.uncompressed_buffer = buf]

\* push that encodes the tail as it was before the pushed value
CVec_push_encode_before(c, value, chunk_elems, compression_level) ==
    LET buf == Append(c.uncompressed_buffer, value) IN
    IF Len(buf) >= chunk_elems
    THEN [c EXCEPT !.compressed_storage =
                       Append(@, compress(c.uncompressed_buffer,
                                          compression_level)),
                   !.uncompressed_buffer = <<>>]
    ELSE [c EXCEPT !.uncompressed_buffer = buf]

\* push that stores the tail as a chunk at every call
CVec_push_flush_always(c, value, chunk_elems, compression_level) ==
    [c EXCEPT !.compressed_storage =
                  Append(@, compress(Append(c.uncompressed_buffer, value),
                                     compression_level)),
              !.uncompressed_buffer = <<>>]

\* CVecInner::push
CVec_push(c, value, chunk_elems, compression_level) ==
    LET buf == Append(c.uncompressed_buffer, value) IN
    IF Len(buf) >= chunk_elems
    THEN [c EXCEPT !.compressed_storage =
                       Append(@, compress(buf, compression_level)),
                   !.uncompressed_buffer = <<>>]
    ELSE [c EXCEPT !.uncompressed_buffer = buf]

\* Vec::pop on the uncompressed buffer
Vec_pop(v) ==
    IF v = <<>> THEN [vec |-> v, ret |-> None]
    ELSE [vec |-> Front(v), ret |-> Some(Last(v))]

\* pop that decodes the last chunk without removing it from the list
CVec_pop_peek_chunk(c, strat) ==
    IF c.uncompressed_buffer = <<>> /\ c.compressed_storage # <<>>
    THEN LET d == decompress(Last(c.compressed_storage))
             p == Vec_pop(d.val) IN
         [panic |-> d.panic, ret |-> p.ret,
          c |-> [c EXCEPT !.uncompressed_buffer = p.vec]]
    ELSE LET p == Vec_pop(c.uncompressed_buffer) IN
         [panic |-> NoPanic, ret |-> p.ret,
          c |-> [c EXCEPT !.uncompressed_buffer = p.vec]]

\* pop that never refills the tail from the chunk list
CVec_pop_tail_only(c, strat) ==
    LET p == Vec_pop(c.uncompressed_buffer) IN
    [panic |-> NoPanic, ret |-> p.ret,
     c |-> [c EXCEPT !.uncompressed_buffer = p.vec]]

\* pop that leaves the cache slot alone
CVec_pop_keep_cache(c, strat) ==
    IF c.uncompressed_buffer = <<>> /\ c.compressed_storage # <<>>
    THEN LET d == decompress(Last(c.compressed_storage))
             p == Vec_pop(d.val) IN
         [panic |-> d.panic, ret |-> p.ret,
          c |-> [c EXCEPT !.compressed_storage = Front(@),
                          !.uncompressed_buffer = p.vec]]
    ELSE LET p == Vec_pop(c.uncompressed_buffer) IN
         [panic |-> NoPanic, ret |-> p.ret,
          c |-> [c EXCEPT !.uncompressed_buffer = p.vec]]

\* pop that empties the cache slot whenever it removes a chunk
CVec_pop_kill_always(c, strat) ==
    IF c.uncompressed_buffer = <<>> /\ c.compressed_storage # <<>>
    THEN LET d == decompress(Last(c.compressed_storage))
             p == Vec_pop(d.val) IN
         [panic |-> d.panic, ret |-> p.ret,
          c |-> [compressed_storage |-> Front(c.compressed_storage),
                 uncompressed_buffer |-> p.vec,
                 cache |-> kill_all(strat, c.cache)]]
    ELSE LET p == Vec_pop(c.uncompressed_buffer) IN
         [panic |-> NoPanic, ret |-> p.ret,
          c |-> [c EXCEPT !.uncompressed_buffer = p.vec]]

\* pop that refills the tail from the first chunk of the list
CVec_pop_first_chunk(c, strat) ==
    IF c.uncompressed_buffer = <<>> /\ c.compressed_storage # <<>>
    THEN LET d == decompress(Head(c.compressed_storage))
             p == Vec_pop(d.val) IN
         [panic |-> d.panic, ret |-> p.ret,
          c |-> [compressed_storage |-> Tail(c.compressed_storage),
                 uncompressed_buffer |-> p.vec,
                 cache |-> kill_all(strat, c.cache)]]
    ELSE LET p == Vec_pop(c.uncompressed_buffer) IN
         [panic |-> NoPanic, ret |-> p.ret,
          c |-> [c EXCEPT !.uncompressed_buffer = p.vec]]

\* CVecInner::pop
CVec_pop(c, strat) ==
    IF c.uncompressed_buffer = <<>> /\ c.compressed_storage # <<>>
    THEN LET x == Last(c.compressed_storage)
             storage == Front(c.compressed_storage)
             d == decompress(x) IN
         IF d.panic.kind # "none"
         THEN [panic |-> d.panic, ret |-> None,
               c |-> [c EXCEPT !.compressed_storage = storage]]
         ELSE LET p == Vec_pop(d.val) IN
              [panic |-> NoPanic, ret |-> p.ret,
               c |-> [compressed_storage |-> storage,
                      uncompressed_buffer |-> p.vec,
                      cache |-> IF is_cached(strat, c.cache, Len(storage))
                                THEN kill_all(strat, c.cache)
                                ELSE c.cache]]
    ELSE LET p == Vec_pop(c.uncompressed_buffer) IN
         [panic |-> NoPanic, ret |-> p.ret,
          c |-> [c EXCEPT !.uncompressed_buffer = p.vec]]

\* len that counts the tail only
CVec_len_tail_only(c, chunk_elems) == Len(c.uncompressed_buffer)

\* CVecInner::len
CVec_len(c, chunk_elems) ==
    Len(c.uncompressed_buffer) + Len(c.compressed_storage) * chunk_elems

\* CVecInner::is_empty
CVec_is_empty(c) == c.uncompressed_buffer = <<>> /\ c.compressed_storage = <<>>

\* split that takes any index beyond the chunks for a tail index
split_any_chunk(c, idx, chunk_elems) ==
    LET i == idx \div chunk_elems
        offset == idx % chunk_elems IN
    IF i < Len(c.compressed_storage)
    THEN [kind |-> "Compressed", chunk_idx |-> i, offset |-> offset]
    ELSE IF offset < Len(c.uncompressed_buffer)
         THEN [kind |-> "Uncompressed", chunk_idx |-> i, offset |-> offset]
         ELSE [kind |-> "None", chunk_idx |-> i, offset |-> offset]

\* CVecInner::split
split(c, idx, chunk_elems) ==
    LET i == idx \div chunk_elems
        offset == idx % chunk_elems IN
    IF i < Len(c.compressed_storage)
    THEN [kind |-> "Compressed", chunk_idx |-> i, offset |-> offset]
    ELSE IF i = Len(c.compressed_storage) /\ offset < Len(c.uncompressed_buffer)
         THEN [kind |-> "Uncompressed", chunk_idx |-> i, offset |-> offset]
         ELSE [kind |-> "None", chunk_idx |-> i, offset |-> offset]

\* CVecInner::get_uncached
get_uncached(c, idx, chunk_elems) ==
    LET s == split(c, idx, chunk_elems) IN
    IF s.kind = "None" THEN [panic |-> NoPanic, ret |-> None]
    ELSE IF s.kind = "Uncompressed"
    THEN [panic |-> NoPanic, ret |-> Some(c.uncompressed_buffer[s.offset + 1])]
    ELSE LET d == decompress(c.compressed_storage[s.chunk_idx + 1]) IN
         IF d.panic.kind # "none" THEN [panic |-> d.panic, ret |-> None]
         ELSE IF s.offset >= Len(d.val)
              THEN [panic |-> Panic("unwrap_none", 0, 0), ret |-> None]
              ELSE [panic |-> NoPanic, ret |-> Some(d.val[s.offset + 1])]

\* get_ref that takes the chunk it reads for the tail
get_ref_into_tail(c, idx, chunk_elems) ==
    LET s == split(c, idx, chunk_elems) IN
    IF s.kind = "None"
    THEN [panic |-> NoPanic, ret |-> None, c |-> c, decodes |-> 0]
    ELSE IF s.kind = "Uncompressed"
    THEN [panic |-> NoPanic, c |-> c, decodes |-> 0,
          ret |-> Some(c.uncompressed_buffer[s.offset + 1])]
    ELSE LET d == decompress(c.compressed_storage[s.chunk_idx + 1]) IN
         [panic |-> d.panic, decodes |-> 1,
          ret |-> IF d.panic.kind # "none" THEN None
                  ELSE Some(d.val[s.offset + 1]),
          c |-> [c EXCEPT !.uncompressed_buffer = d.val]]

\* CVecInner::get_ref (C = Cached)
get_ref(c, idx, chunk_elems) ==
    LET s == split(c, idx, chunk_elems) IN
    IF s.kind = "None"
    THEN [panic |-> NoPanic, ret |-> None, c |-> c, decodes |-> 0]
    ELSE IF s.kind = "Uncompressed"
    THEN [panic |-> NoPanic, c |-> c, decodes |-> 0,
          ret |-> Some(c.uncompressed_buffer[s.offset + 1])]
    ELSE LET g == Cached_get_compressed(c.cache, s.chunk_idx, s.offset,
                      c.compressed_storage[s.chunk_idx + 1], chunk_elems) IN
         [panic |-> g.panic, ret |-> g.ret, decodes |-> g.decodes,
          c |-> [c EXCEPT !.cache = g.cache]]

\* get that keeps the EntryRef it has read through
get_keep_ref(c, idx, chunk_elems) ==
    LET s == split(c, idx, chunk_elems) IN
    IF s.kind = "None"
    THEN [panic |-> NoPanic, ret |-> None, c |-> c, decodes |-> 0]
    ELSE IF s.kind = "Uncompressed"
    THEN [panic |-> NoPanic, c |-> c, decodes |-> 0,
          ret |-> Some(c.uncompressed_buffer[s.offset + 1])]
    ELSE LET b == Entry_borrow(c.cache, s.chunk_idx, s.offset,
                      c.compressed_storage[s.chunk_idx + 1], chunk_elems) IN
         IF b.panic.kind # "none"
         THEN [panic |-> b.panic, ret |-> None, decodes |-> b.decodes,
               c |-> [c EXCEPT !.cache = b.cache]]
         ELSE [panic |-> NoPanic, decodes |-> b.decodes,
               ret |-> Some(EntryRef_deref(b.cache, s.offset)),
               c |-> [c EXCEPT !.cache = b.cache]]

\* CVecInner::get (C = RcCached): the Entry is borrowed, the element cloned
\* and the temporary EntryRef dropped at the end of the statement.
get(c, idx, chunk_elems) ==
    LET s == split(c, idx, chunk_elems) IN
    IF s.kind = "None"
    THEN [panic |-> NoPanic, ret |-> None, c |-> c, decodes |-> 0]
    ELSE IF s.kind = "Uncompressed"
    THEN [panic |-> NoPanic, c |-> c, decodes |-> 0,
          ret |-> Some(c.uncompressed_buffer[s.offset + 1])]
    ELSE LET b == Entry_borrow(c.cache, s.chunk_idx, s.offset,
                      c.compressed_storage[s.chunk_idx + 1], chunk_elems) IN
         IF b.panic.kind # "none"
         THEN [panic |-> b.panic, ret |-> None, decodes |-> b.decodes,
               c |-> [c EXCEPT !.cache = b.cache]]
         ELSE [panic |-> NoPanic, decodes |-> b.decodes,
               ret |-> Some(EntryRef_deref(b.cache, s.offset)),
               c |-> [c EXCEPT !.cache = Ref_drop(b.cache)]]

\* <EntryRef as Deref>::deref on either variant of a live handle `h` of the
\* container c (`h.idx`, the index the handle was asked for, is not a field
\* of the EntryRef)
EntryRef_read(c, h) ==
    IF h.kind = "Compressed" THEN EntryRef_deref(c.cache, h.offset)
    ELSE c.uncompressed_buffer[h.offset + 1]

\* -------------------------------------------- whole-structure transform
\* postcard::to_stdvec(&CVec): the derived Serialize writes the fields in
\* declaration order, compressed_storage (a Vec of byte boxes) and then
\* uncompressed_buffer; `cache` is #[serde(skip)].
CVec_to_stdvec_tail_first(c) ==
    to_stdvec_seq(c.uncompressed_buffer)
    \o <<Len(c.compressed_storage)>>
    \o Concat([i \in 1..Len(c.compressed_storage) |->
                  to_stdvec_seq(c.compressed_storage[i])])

\* a Serialize that writes the cache slot too, after the two fields
CVec_to_stdvec_with_cache(c) ==
    <<Len(c.compressed_storage)>>
    \o Concat([i \in 1..Len(c.compressed_storage) |->
                  to_stdvec_seq(c.compressed_storage[i])])
    \o to_stdvec_seq(c.uncompressed_buffer)
    \o (IF is_some(c.cache.data)
        THEN <<1>> \o to_stdvec_seq(unwrap(c.cache.data))
        ELSE <<0>>)

\* the derived Serialize of CVec, through postcard: both fields in order,
\* the cache skipped; CHUNK_ELEMS and COMPRESSION_LEVEL are parameters of
\* the type and no fields
CVec_to_stdvec(c) ==
    <<Len(c.compressed_storage)>>
    \o Concat([i \in 1..Len(c.compressed_storage) |->
                  to_stdvec_seq(c.compressed_storage[i])])
    \o to_stdvec_seq(c.uncompressed_buffer)

\* compress::<CVec>, as tests::simple_test snapshots a container
CVec_compress(c, compression_level) ==
    CompressorWriter(CVec_to_stdvec(c), compression_level)

\* a Deserialize that decodes the first chunk into the cache slot
CVec_from_bytes_warm(bytes) ==
    IF bytes = <<>> THEN [ok |-> FALSE, val |-> CVec_default]
    ELSE LET chunks == take_seqs(Tail(bytes), bytes[1]) IN
         IF ~chunks.ok THEN [ok |-> FALSE, val |-> CVec_default]
         ELSE LET buf == take_seq(chunks.rest) IN
              IF ~buf.ok THEN [ok |-> FALSE, val |-> CVec_default]
              ELSE [ok |-> TRUE,
                    val |-> [compressed_storage |-> chunks.val,
                             uncompressed_buffer |-> buf.val,
                             cache |-> IF chunks.val = <<>> THEN Cached_default
                                       ELSE [index |-> 0, borrow |-> 0,
                                             data |-> Some(decompress(
                                                        chunks.val[1]).val)]]]

\* the derived Deserialize of CVec: both fields in order, cache: Default
CVec_from_bytes(bytes) ==
    IF bytes = <<>> THEN [ok |-> FALSE, val |-> CVec_default]
    ELSE LET chunks == take_seqs(Tail(bytes), bytes[1]) IN
         IF ~chunks.ok THEN [ok |-> FALSE, val |-> CVec_default]
         ELSE LET buf == take_seq(chunks.rest) IN
              IF ~buf.ok THEN [ok |-> FALSE, val |-> CVec_default]
              ELSE [ok |-> TRUE,
                    val |-> [compressed_storage |-> chunks.val,
                             uncompressed_buffer |-> buf.val,
                             cache |-> Cached_default]]

\* decompress::<CVec>
CVec_decompress(x) ==
    LET r == CVec_from_bytes(DecompressorWriter(x)) IN
    IF r.ok THEN [panic |-> NoPanic, val |-> r.val]
    ELSE [panic |-> Panic("unwrap_err", 0, 0), val |-> r.val]

\* eq that compares the tails only
CVec_eq_tails(a, b) == a.uncompressed_buffer = b.uncompressed_buffer

\* <CVec as PartialEq>::eq
CVec_eq(a, b) ==
    /\ a.compressed_storage = b.compressed_storage
    /\ a.uncompressed_buffer = b.uncompressed_buffer

\* ------------------------------------------------------------ iterators
\* CVecIter { chunk_idx, inner, iter }: `side` is the variant of the Either
\* (Left: the decoded chunk being walked, Right: the slice iterator over
\* the tail), `rest` the items that iterator has left.
CVecIter_into_iter == [chunk_idx |-> 0, side |-> "Right", rest |-> <<>>]

\* next that stops after the last chunk, without walking the tail
CVecIter_next_no_tail(it, c) ==
    LET loaded ==
          IF Len(it.rest) = 0
          THEN IF it.chunk_idx < Len(c.compressed_storage)
               THEN LET d == decompress(c.compressed_storage[it.chunk_idx + 1]) IN
                    [panic |-> d.panic, stop |-> FALSE,
                     it |-> [chunk_idx |-> it.chunk_idx + 1,
                             side |-> "Left", rest |-> d.val]]
               ELSE [panic |-> NoPanic, stop |-> TRUE, it |-> it]
          ELSE [panic |-> NoPanic, stop |-> FALSE, it |-> it] IN
    IF loaded.stop \/ loaded.it.rest = <<>>
    THEN [panic |-> loaded.panic, it |-> loaded.it, ret |-> None]
    ELSE [panic |-> loaded.panic, ret |-> Some(Head(loaded.it.rest)),
          it |-> [loaded.it EXCEPT !.rest = Tail(@)]]

\* <CVecIter as Iterator>::next
CVecIter_next(it, c) ==
    LET loaded ==
          IF Len(it.rest) = 0
          THEN IF it.chunk_idx < Len(c.compressed_storage)
               THEN LET d == decompress(c.compressed_storage[it.chunk_idx + 1]) IN
                    [panic |-> d.panic, stop |-> FALSE,
                     it |-> [chunk_idx |-> it.chunk_idx + 1,
                             side |-> "Left", rest |-> d.val]]
               ELSE IF it.chunk_idx = Len(c.compressed_storage)
                    THEN [panic |-> NoPanic, stop |-> FALSE,
                          it |-> [chunk_idx |-> it.chunk_idx + 1,
                                  side |-> "Right",
                                  rest |-> c.uncompressed_buffer]]
                    ELSE [panic |-> NoPanic, stop |-> TRUE, it |-> it]
          ELSE [panic |-> NoPanic, stop |-> FALSE, it |-> it] IN
    IF loaded.panic.kind # "none"
    THEN [panic |-> loaded.panic, it |-> it, ret |-> None]
    ELSE IF loaded.stop \/ loaded.it.rest = <<>>
         THEN [panic |-> NoPanic, it |-> loaded.it, ret |-> None]
         ELSE [panic |-> NoPanic, ret |-> Some(Head(loaded.it.rest)),
               it |-> [loaded.it EXCEPT !.rest = Tail(@)]]

\* size_hint that leaves out the tail
CVecIter_size_hint_no_tail(it, c, chunk_elems) ==
    LET len == Len(it.rest)
        left == Len(c.compressed_storage) - it.chunk_idx
        compressed_len == (IF left < 0 THEN 0 ELSE left) * chunk_elems IN
    <<len + compressed_len, Some(len + compressed_len)>>

\* <CVecIter as Iterator>::size_hint: (lower, Some(upper))
CVecIter_size_hint(it, c, chunk_elems) ==
    LET len == Len(it.rest)
        left == Len(c.compressed_storage) - it.chunk_idx
        \* saturating_sub
        compressed_len == (IF left < 0 THEN 0 ELSE left) * chunk_elems
        uncompressed_len == IF it.chunk_idx <= Len(c.compressed_storage)
                            THEN Len(c.uncompressed_buffer) ELSE 0 IN
    <<len + compressed_len + uncompressed_len,
      Some(len + compressed_len + uncompressed_len)>>

\* what n successive pop() calls on c return, in order (the loop of
\* tests::simple_test)
RECURSIVE pops(_, _, _)
pops(c, strat, n) ==
    IF n = 0 THEN <<>>
    ELSE LET r == CVec_pop(c, strat) IN
         IF is_none(r.ret) THEN <<>>
         ELSE <<unwrap(r.ret)>> \o pops(r.c, strat, n - 1)

\* <CVecIntoIter as Iterator>::next
CVecIntoIter_next(c, strat) == CVec_pop(c, strat)

\* const ASSERT_SUPPORTED_SIZE / const COMPRESSION_LEVEL_CHECK: the conditions
\* of the two assert!s, evaluated when default() is instantiated
ASSERT_SUPPORTED_SIZE_any(chunk_elems) == TRUE
ASSERT_SUPPORTED_SIZE(chunk_elems) == chunk_elems > 0
COMPRESSION_LEVEL_CHECK(compression_level) ==
    compression_level >= 0 /\ compression_level <= 11

\* <CVecInner as Default>::default: a failing assert! in a const is an
\* error of constant evaluation, no container comes to exist
CVecInner_default(chunk_elems, compression_level) ==
    IF ~ASSERT_SUPPORTED_SIZE(chunk_elems)
    THEN [panic |-> Panic("Chunk size must be greater than 0", chunk_elems, 0),
          c |-> CVec_default]
    ELSE IF ~COMPRESSION_LEVEL_CHECK(compression_level)
    THEN [panic |-> Panic("Compression level must be between 0 and 11",
                          compression_level, 0),
          c |-> CVec_default]
    ELSE [panic |-> NoPanic, c |-> CVec_default]

\* CVec::new / CVecRc::new / CVecUncached::new
CVec_new(chunk_elems, compression_level) ==
    CVecInner_default(chunk_elems, compression_level)

\* the loop of from_iter: c.push(i) for i in iter
RECURSIVE push_all(_, _, _, _)
push_all(c, xs, chunk_elems, compression_level) ==
    IF xs = <<>> THEN c
    ELSE push_all(CVec_push(c, Head(xs), chunk_elems, compression_level),
                  Tail(xs), chunk_elems, compression_level)

\* from_iter that pushes the items last to first
CVec_from_iter_reversed(xs, chunk_elems, compression_level) ==
    LET d == CVecInner_default(chunk_elems, compression_level) IN
    IF d.panic.kind # "none" THEN d
    ELSE [panic |-> NoPanic,
          c |-> push_all(d.c, Reverse(xs), chunk_elems, compression_level)]

\* <CVecInner as FromIterator>::from_iter
CVec_from_iter(xs, chunk_elems, compression_level) ==
    LET d == CVecInner_default(chunk_elems, compression_level) IN
    IF d.panic.kind # "none" THEN d
    ELSE [panic |-> NoPanic,
          c |-> push_all(d.c, xs, chunk_elems, compression_level)]

\* ------------------------------------------------------------ ChunkSize
\* ChunkSize::SizeElements(x) and its siblings
ChunkSize(tag, x) == [tag |-> tag, x |-> x]

\* the ChunkSize values a Stack or a Deque is asked for: a few of each
\* option, and a SizeMB whose byte count does not fit in a usize
ChunkSizes ==
    {ChunkSize("SizeElements", x) : x \in 0..MaxChunkElems}
    \cup {ChunkSize("SizeBytes", x) : x \in 0..MaxChunkElems}
    \cup {ChunkSize("SizeMB", x) : x \in {0, 1, (USIZE_MAX \div 1048576) + 1}}
    \cup {ChunkSize("Default", 0)}
\* size_of::<T>() of a zero-sized, a one-byte and a two-byte element type
ElementSizes == {0, 1, 2}

\* x / elementsize on usize
usize_div(x, elementsize) ==
    IF elementsize = 0
    THEN {[panic |-> Panic("attempt to divide by zero", x, elementsize),
           val |-> 0]}
    ELSE {[panic |-> NoPanic, val |-> x \div elementsize]}

\* x * 1024 * 1024 on usize: a product that does not fit aborts where
\* overflow checks are compiled in and wraps where they are not
usize_mb(x) ==
    IF x > USIZE_MAX \div 1048576
    THEN {[panic |-> Panic("attempt to multiply with overflow", x, 1048576),
           val |-> 0],
          [panic |-> NoPanic,
           val |-> (x % ((USIZE_MAX \div 1048576) + 1)) * 1048576]}
    ELSE {[panic |-> NoPanic, val |-> x * 1048576]}

\* the `match chunksize` of new_with_options: the outcomes of computing
\* the chunk size in elements
chunk_size_of(cs, elementsize) ==
    IF cs.tag = "SizeElements" THEN {[panic |-> NoPanic, val |-> cs.x]}
    ELSE IF cs.tag = "SizeBytes" THEN usize_div(cs.x, elementsize)
    ELSE IF cs.tag = "SizeMB"
    THEN UNION {IF m.panic.kind # "none" THEN {m}
                ELSE usize_div(m.val, elementsize) : m \in usize_mb(cs.x)}
    ELSE usize_div(10485760, elementsize)

\* ---------------------------------------------------------------- Stack
\* Stack::new_with_options(ChunkSize::SizeElements(x), compression_level)
Stack_new_with_options(x, compression_level) ==
    [uncompressed_buffer |-> <<>>, compressed_storage |-> <<>>,
     chunk_size |-> x, compression_level |-> compression_level, length |-> 0]

\* Stack::new_with_options(chunksize, compression_level) for an element type
\* of `elementsize` bytes: each outcome is a panic or the Stack
Stack_with_options(cs, elementsize, compression_level) ==
    {[panic |-> r.panic,
      s |-> Stack_new_with_options(r.val, compression_level)] :
        r \in chunk_size_of(cs, elementsize)}

\* Stack::new()
Stack_new(elementsize) ==
    Stack_with_options(ChunkSize("Default", 0), elementsize, 0)

\* Stack push that does not count the element
Stack_push_no_length(s, value) ==
    LET buf == Append(s.uncompressed_buffer, value) IN
    IF Len(buf) >= s.chunk_size
    THEN [s EXCEPT !.compressed_storage =
                       Append(@, compress(buf, s.compression_level)),
                   !.uncompressed_buffer = <<>>]
    ELSE [s EXCEPT !.uncompressed_buffer = buf]

\* Stack::push
Stack_push(s, value) ==
    LET buf == Append(s.uncompressed_buffer, value) IN
    IF Len(buf) >= s.chunk_size
    THEN [s EXCEPT !.length = @ + 1,
                   !.compressed_storage =
                       Append(@, compress(buf, s.compression_level)),
                   !.uncompressed_buffer = <<>>]
    ELSE [s EXCEPT !.length = @ + 1, !.uncompressed_buffer = buf]

\* Stack pop that takes the tail from its front
Stack_pop_front(s) ==
    IF s.uncompressed_buffer = <<>>
    THEN [panic |-> NoPanic, ret |-> None, s |-> s]
    ELSE [panic |-> NoPanic, ret |-> Some(Head(s.uncompressed_buffer)),
          s |-> [s EXCEPT !.uncompressed_buffer = Tail(@), !.length = @ - 1]]

\* Stack::pop
Stack_pop(s) ==
    LET d == IF s.uncompressed_buffer = <<>> /\ s.compressed_storage # <<>>
             THEN decompress(Last(s.compressed_storage))
             ELSE [panic |-> NoPanic, val |-> s.uncompressed_buffer]
        storage == IF s.uncompressed_buffer = <<>> /\ s.compressed_storage # <<>>
                   THEN Front(s.compressed_storage)
                   ELSE s.compressed_storage
        p == Vec_pop(d.val) IN
    IF d.panic.kind # "none"
    THEN [panic |-> d.panic, ret |-> None,
          s |-> [s EXCEPT !.compressed_storage = storage]]
    ELSE [panic |-> NoPanic, ret |-> p.ret,
          s |-> [s EXCEPT !.compressed_storage = storage,
                          !.uncompressed_buffer = p.vec,
                          !.length = IF is_some(p.ret) THEN @ - 1 ELSE @]]

\* Stack::len
Stack_len(s) == s.length

\* <Stack as Iterator>::next
Stack_next(s) == Stack_pop(s)

\* Stack::is_empty
Stack_is_empty(s) == s.length = 0

\* ---------------------------------------------------------------- Deque
\* Deque::new_with_options(ChunkSize::SizeElements(x), compression_level);
\* a VecDeque is the sequence of its elements from front to back, which is
\* also the order in which postcard writes it.
Deque_new_with_options(x, compression_level) ==
    [uncompressed_buffer_front |-> <<>>, uncompressed_buffer_back |-> <<>>,
     compressed_storage |-> <<>>,
     chunk_size |-> x, compression_level |-> compression_level, length |-> 0]

\* Deque::new_with_options(chunksize, compression_level) for an element type
\* of `elementsize` bytes: each outcome is a panic or the Deque
Deque_with_options(cs, elementsize, compression_level) ==
    {[panic |-> r.panic,
      d |-> Deque_new_with_options(r.val, compression_level)] :
        r \in chunk_size_of(cs, elementsize)}

\* Deque::new()
Deque_new(elementsize) ==
    Deque_with_options(ChunkSize("Default", 0), elementsize, 0)

\* push_back that never moves the back buffer into a chunk
Deque_push_back_no_flush(d, value) ==
    [d EXCEPT !.length = @ + 1,
              !.uncompressed_buffer_back = Append(@, value)]

\* Deque::push_back
Deque_push_back(d, value) ==
    LET buf == Append(d.uncompressed_buffer_back, value) IN
    IF Len(buf) >= d.chunk_size
    THEN [d EXCEPT !.length = @ + 1,
                   !.compressed_storage =
                       Append(@, compress(buf, d.compression_level)),
                   !.uncompressed_buffer_back = <<>>]
    ELSE [d EXCEPT !.length = @ + 1, !.uncompressed_buffer_back = buf]

\* Deque::push_front
Deque_push_front(d, value) ==
    LET buf == <<value>> \o d.uncompressed_buffer_front IN
    IF Len(buf) >= d.chunk_size
    THEN [d EXCEPT !.length = @ + 1,
                   !.compressed_storage =
                       <<compress(buf, d.compression_level)>> \o @,
                   !.uncompressed_buffer_front = <<>>]
    ELSE [d EXCEPT !.length = @ + 1, !.uncompressed_buffer_front = buf]

\* VecDeque::pop_back / VecDeque::pop_front
VecDeque_pop_back(v) == Vec_pop(v)
VecDeque_pop_front(v) ==
    IF v = <<>> THEN [vec |-> v, ret |-> None]
    ELSE [vec |-> Tail(v), ret |-> Some(Head(v))]

\* Deque::pop_back
Deque_pop_back(d) ==
    LET refill == d.uncompressed_buffer_back = <<>>
        chunk == refill /\ d.compressed_storage # <<>>
        dec == IF chunk THEN decompress(Last(d.compressed_storage))
               ELSE [panic |-> NoPanic, val |-> <<>>]
        storage == IF chunk THEN Front(d.compressed_storage)
                   ELSE d.compressed_storage
        back == IF chunk THEN dec.val
                ELSE IF refill THEN d.uncompressed_buffer_front
                ELSE d.uncompressed_buffer_back
        front == IF refill /\ ~chunk THEN <<>> ELSE d.uncompressed_buffer_front
        p == VecDeque_pop_back(back) IN
    IF dec.panic.kind # "none"
    THEN [panic |-> dec.panic, ret |-> None,
          d |-> [d EXCEPT !.compressed_storage = storage]]
    ELSE [panic |-> NoPanic, ret |-> p.ret,
          d |-> [d EXCEPT !.compressed_storage = storage,
                          !.uncompressed_buffer_front = front,
                          !.uncompressed_buffer_back = p.vec,
                          !.length = IF is_some(p.ret) THEN @ - 1 ELSE @]]

\* pop_front that refills the front buffer from the back buffer even while
\* chunks are stored
Deque_pop_front_skip_chunks(d) ==
    LET refill == d.uncompressed_buffer_front = <<>>
        front == IF refill THEN d.uncompressed_buffer_back
                 ELSE d.uncompressed_buffer_front
        back == IF refill THEN <<>> ELSE d.uncompressed_buffer_back
        p == VecDeque_pop_front(front) IN
    [panic |-> NoPanic, ret |-> p.ret,
     d |-> [d EXCEPT !.uncompressed_buffer_front = p.vec,
                     !.uncompressed_buffer_back = back,
                     !.length = IF is_some(p.ret) THEN @ - 1 ELSE @]]

\* Deque::pop_front
Deque_pop_front(d) ==
    LET refill == d.uncompressed_buffer_front = <<>>
        chunk == refill /\ d.compressed_storage # <<>>
        dec == IF chunk THEN decompress(Head(d.compressed_storage))
               ELSE [panic |-> NoPanic, val |-> <<>>]
        storage == IF chunk THEN Tail(d.compressed_storage)
                   ELSE d.compressed_storage
        front == IF chunk THEN dec.val
                 ELSE IF refill THEN d.uncompressed_buffer_back
                 ELSE d.uncompressed_buffer_front
        back == IF refill /\ ~chunk THEN <<>> ELSE d.uncompressed_buffer_back
        p == VecDeque_pop_front(front) IN
    IF dec.panic.kind # "none"
    THEN [panic |-> dec.panic, ret |-> None,
          d |-> [d EXCEPT !.compressed_storage = storage]]
    ELSE [panic |-> NoPanic, ret |-> p.ret,
          d |-> [d EXCEPT !.compressed_storage = storage,
                          !.uncompressed_buffer_front = p.vec,
                          !.uncompressed_buffer_back = back,
                          !.length = IF is_some(p.ret) THEN @ - 1 ELSE @]]

\* the derived PartialEq of Deque: field by field; a VecDeque equals
\* another when it holds the same elements in the same order
Deque_eq(a, b) ==
    /\ a.uncompressed_buffer_front = b.uncompressed_buffer_front
    /\ a.uncompressed_buffer_back = b.uncompressed_buffer_back
    /\ a.compressed_storage = b.compressed_storage
    /\ a.chunk_size = b.chunk_size
    /\ a.compression_level = b.compression_level
    /\ a.length = b.length

\* the loop of from_iter: c.push_back(i) for i in iter
RECURSIVE Deque_push_back_all(_, _)
Deque_push_back_all(d, xs) ==
    IF xs = <<>> THEN d
    ELSE Deque_push_back_all(Deque_push_back(d, Head(xs)), Tail(xs))

\* Deque::len / Deque::is_empty
Deque_len(d) == d.length
Deque_is_empty(d) == d.length = 0

\* ---------------------------------------------------------------- state
VARIABLES
    target,            \* the container under test: "CVec" or "Stack"
    CHUNK_ELEMS,       \* const generic of the CVec
    COMPRESSION_LEVEL, \* const generic of the CVec
    strategy,          \* the cache type C of the CVec
    cvec,              \* the CVec
    stack,             \* the Stack
    reference,         \* the plain Vec driven by the same calls
    op, arg,           \* the last call and its index argument
    ret, ref_ret,      \* what it returned on the container / on the Vec
    panic,             \* the panic that aborted the program, if any
    cvec_iter,         \* the live borrowing iterator (CVecIter), if any
    ref_iter,          \* what the Vec's iterator has left
    yielded,           \* the items the container's iterator has yielded
    iters,             \* borrowing iterators created in a row over this state
    into_iter,         \* the container was moved into its owning iterator
    evicted,           \* history: the chunk the cache mirrored (its index and
                       \* decoded elements) when a pop removed that chunk or
                       \* a reconstruction replaced the container; kept over
                       \* the pushes and pops that follow and over the first
                       \* get_ref/get after them
    handles,           \* the live EntryRef handles into the CVecRc, oldest first
    deque,             \* the Deque
    chunksize,         \* the ChunkSize a Stack or Deque is constructed with
    elementsize,       \* size_of::<T>() of its element type
    counts,            \* history: the push calls made, the chunks encoded and
                       \* the chunks decoded by pops so far
    entries            \* the lazy Entry handles created on the CVecRc, with the
                       \* number of cache fills each has performed

vars == <<target, CHUNK_ELEMS, COMPRESSION_LEVEL, strategy, cvec, stack,
          reference, op, arg, ret, ref_ret, panic, cvec_iter, ref_iter,
          yielded, iters, into_iter, evicted, handles, deque,
          chunksize, elementsize, counts, entries>>

config_vars == <<target, CHUNK_ELEMS, COMPRESSION_LEVEL, strategy>>
iter_vars == <<cvec_iter, ref_iter, yielded, iters, into_iter>>
\* the variables that only the calls of the later sections change
aux_vars == <<chunksize, elementsize, counts, entries>>

\* no call counted yet
NoCounts == [pushes |-> 0, encodes |-> 0, decodes |-> 0]

\* CVec::new / CVecRc::new / CVecUncached::new (CVecInner::default) with the
\* const assertions satisfied, Stack::new_with_options(SizeElements(x), q) or
\* Deque::new_with_options(SizeElements(x), q)
Init ==
    /\ target \in {"CVec", "Stack", "Deque"}
    /\ COMPRESSION_LEVEL \in Qualities
    /\ IF target = "CVec"
       THEN /\ CHUNK_ELEMS \in ChunkCapacities
            /\ strategy \in Strategies
            /\ stack = Stack_new_with_options(0, COMPRESSION_LEVEL)
       ELSE /\ CHUNK_ELEMS = 1
            /\ strategy = "Uncached"
            /\ IF target = "Stack"
               THEN stack \in {Stack_new_with_options(x, COMPRESSION_LEVEL) :
                                 x \in 0..MaxChunkElems}
               ELSE stack = Stack_new_with_options(0, COMPRESSION_LEVEL)
    /\ IF target = "Deque"
       THEN deque \in {Deque_new_with_options(x, COMPRESSION_LEVEL) :
                         x \in 0..MaxChunkElems}
       ELSE deque = Deque_new_with_options(0, COMPRESSION_LEVEL)
    /\ handles = <<>>
    /\ cvec = CVec_default
    /\ reference = <<>>
    /\ op = "new" /\ arg = 0 /\ ret = None /\ ref_ret = None
    /\ panic = NoPanic
    /\ cvec_iter = None /\ ref_iter = <<>> /\ yielded = <<>>
    /\ iters = 0 /\ into_iter = FALSE
    /\ evicted = None
    /\ chunksize = ChunkSize("SizeElements",
                             IF target = "Stack" THEN stack.chunk_size
                             ELSE IF target = "Deque" THEN deque.chunk_size
                             ELSE 0)
    /\ elementsize = 1
    /\ counts = NoCounts
    /\ entries = <<>>

Running == panic.kind = "none"
\* the CVec is neither borrowed by an iterator nor moved
Idle == Running /\ target = "CVec" /\ ~into_iter /\ cvec_iter = None
\* the CVec is borrowed by a live CVecIter
Iterating == Running /\ target = "CVec" /\ ~into_iter /\ cvec_iter # None

\* the last call was a cached read of the chunk index recorded in `evicted`,
\* where a chunk is stored again
EvictedRead ==
    /\ is_some(evicted) /\ op \in {"get_ref", "get"}
    /\ arg \div CHUNK_ELEMS = unwrap(evicted).index
    /\ arg \div CHUNK_ELEMS < Len(cvec.compressed_storage)
\* the history lasts as long as only pushes and pops have followed
evicted_kept == IF op \in {"push", "pop"} THEN evicted ELSE None

\* Option<&T> of Vec::get on the reference
Vec_get(v, idx) == IF idx < Len(v) THEN Some(v[idx + 1]) ELSE None

\* ------------------------------------------------------------- CVec calls
Push(v) ==
    /\ Idle /\ handles = <<>> /\ Len(reference) < MaxLen
    /\ cvec' = CVec_push(cvec, v, CHUNK_ELEMS, COMPRESSION_LEVEL)
    /\ reference' = Append(reference, v)
    /\ op' = "push" /\ arg' = 0 /\ ret' = None /\ ref_ret' = None
    /\ UNCHANGED <<config_vars, stack, panic, iter_vars, handles, deque>>
    /\ evicted' = evicted_kept
    /\ UNCHANGED aux_vars

Pop ==
    /\ Idle /\ handles = <<>>
    /\ LET r == CVec_pop(cvec, strategy)
           p == Vec_pop(reference) IN
       /\ cvec' = r.c /\ ret' = r.ret /\ panic' = r.panic
       /\ reference' = p.vec /\ ref_ret' = p.ret
    /\ evicted' =
         IF /\ cvec.uncompressed_buffer = <<>> /\ cvec.compressed_storage # <<>>
            /\ is_cached(strategy, cvec.cache, Len(cvec.compressed_storage) - 1)
         THEN Some([index |-> cvec.cache.index, data |-> unwrap(cvec.cache.data)])
         ELSE evicted_kept
    /\ op' = "pop" /\ arg' = 0
    /\ UNCHANGED <<config_vars, stack, iter_vars, handles, deque>>
    /\ UNCHANGED aux_vars

GetRef(idx) ==
    /\ Idle /\ strategy = "Cached"
    /\ LET r == get_ref(cvec, idx, CHUNK_ELEMS) IN
       cvec' = r.c /\ ret' = r.ret /\ panic' = r.panic
    /\ ref_ret' = Vec_get(reference, idx)
    /\ op' = "get_ref" /\ arg' = idx
    /\ UNCHANGED <<config_vars, stack, reference, iter_vars, handles, deque>>
    /\ evicted' = evicted_kept
    /\ UNCHANGED aux_vars

Get(idx) ==
    /\ Idle /\ strategy = "RcCached"
    /\ LET r == get(cvec, idx, CHUNK_ELEMS) IN
       cvec' = r.c /\ ret' = r.ret /\ panic' = r.panic
    /\ ref_ret' = Vec_get(reference, idx)
    /\ op' = "get" /\ arg' = idx
    /\ UNCHANGED <<config_vars, stack, reference, iter_vars, handles, deque>>
    /\ evicted' = evicted_kept
    /\ UNCHANGED aux_vars

GetUncached(idx) ==
    /\ Idle
    /\ LET r == get_uncached(cvec, idx, CHUNK_ELEMS) IN
       ret' = r.ret /\ panic' = r.panic
    /\ ref_ret' = Vec_get(reference, idx)
    /\ op' = "get_uncached" /\ arg' = idx
    /\ UNCHANGED <<config_vars, cvec, stack, reference, iter_vars,
                   handles, deque>>
    /\ evicted' = None
    /\ UNCHANGED aux_vars

\* tests::simple_test: data = compress(&c, q); c = decompress(&data)
RoundTrip ==
    /\ Idle
    /\ \E q \in Qualities :
         LET r == CVec_decompress(CVec_compress(cvec, q)) IN
         cvec' = r.val /\ panic' = r.panic
    /\ op' = "roundtrip" /\ arg' = 0 /\ ret' = None /\ ref_ret' = None
    /\ UNCHANGED <<config_vars, stack, reference, iter_vars, handles, deque>>
    /\ evicted' = IF strategy # "Uncached" /\ is_some(cvec.cache.data)
                  THEN Some([index |-> cvec.cache.index,
                             data |-> unwrap(cvec.cache.data)])
                  ELSE None
    /\ UNCHANGED aux_vars

\* (&c).into_iter() next to reference.iter(); again once the previous
\* iterator is exhausted or abandoned
Iter ==
    /\ Idle \/ Iterating
    /\ iters < MaxIters
    /\ cvec_iter' = Some(CVecIter_into_iter)
    /\ ref_iter' = reference
    /\ yielded' = <<>>
    /\ iters' = iters + 1
    /\ op' = "iter" /\ arg' = 0 /\ ret' = None /\ ref_ret' = None
    /\ UNCHANGED <<config_vars, cvec, stack, reference, panic, into_iter,
                   handles, deque>>
    /\ evicted' = None
    /\ UNCHANGED aux_vars

IterNext ==
    /\ Iterating
    /\ LET r == CVecIter_next(unwrap(cvec_iter), cvec) IN
       /\ cvec_iter' = Some(r.it) /\ ret' = r.ret /\ panic' = r.panic
       /\ yielded' = IF is_some(r.ret) THEN Append(yielded, unwrap(r.ret))
                     ELSE yielded
    /\ ref_ret' = IF ref_iter = <<>> THEN None ELSE Some(Head(ref_iter))
    /\ ref_iter' = IF ref_iter = <<>> THEN <<>> ELSE Tail(ref_iter)
    /\ op' = "iter_next" /\ arg' = 0
    /\ UNCHANGED <<config_vars, cvec, stack, reference, iters, into_iter,
                   handles, deque>>
    /\ evicted' = None
    /\ UNCHANGED aux_vars

\* the borrowing iterator goes out of scope
IterDrop ==
    /\ Iterating
    /\ cvec_iter' = None /\ ref_iter' = <<>> /\ yielded' = <<>> /\ iters' = 0
    /\ op' = "iter_drop" /\ arg' = 0 /\ ret' = None /\ ref_ret' = None
    /\ UNCHANGED <<config_vars, cvec, stack, reference, panic, into_iter,
                   handles, deque>>
    /\ evicted' = None
    /\ UNCHANGED aux_vars

\* c.into_iter() next to reference.into_iter(): both are moved, `reference`
\* keeps what the Vec held
IntoIter ==
    /\ Idle
    /\ into_iter' = TRUE
    /\ ref_iter' = reference
    /\ yielded' = <<>>
    /\ op' = "into_iter" /\ arg' = 0 /\ ret' = None /\ ref_ret' = None
    /\ UNCHANGED <<config_vars, cvec, stack, reference, panic, cvec_iter, iters,
                   handles, deque>>
    /\ evicted' = None
    /\ UNCHANGED aux_vars

IntoIterNext ==
    /\ Running /\ target = "CVec" /\ into_iter
    /\ LET r == CVecIntoIter_next(cvec, strategy) IN
       /\ cvec' = r.c /\ ret' = r.ret /\ panic' = r.panic
       /\ yielded' = IF is_some(r.ret) THEN Append(yielded, unwrap(r.ret))
                     ELSE yielded
    /\ ref_ret' = IF ref_iter = <<>> THEN None ELSE Some(Head(ref_iter))
    /\ ref_iter' = IF ref_iter = <<>> THEN <<>> ELSE Tail(ref_iter)
    /\ op' = "into_iter_next" /\ arg' = 0
    /\ UNCHANGED <<config_vars, stack, reference, cvec_iter, iters, into_iter,
                   handles, deque>>
    /\ evicted' = None
    /\ UNCHANGED aux_vars

\* ------------------------------------------------------------ Stack calls
StackPush(v) ==
    /\ Running /\ target = "Stack" /\ ~into_iter /\ Len(reference) < MaxLen
    /\ stack' = Stack_push(stack, v)
    /\ reference' = Append(reference, v)
    /\ op' = "push" /\ arg' = 0 /\ ret' = None /\ ref_ret' = None
    /\ UNCHANGED <<config_vars, cvec, panic, iter_vars, handles, deque>>
    /\ evicted' = None
    /\ UNCHANGED aux_vars

StackPop ==
    /\ Running /\ target = "Stack" /\ ~into_iter
    /\ LET r == Stack_pop(stack)
           p == Vec_pop(reference) IN
       /\ stack' = r.s /\ ret' = r.ret /\ panic' = r.panic
       /\ reference' = p.vec /\ ref_ret' = p.ret
    /\ op' = "pop" /\ arg' = 0
    /\ UNCHANGED <<config_vars, cvec, iter_vars, handles, deque>>
    /\ evicted' = None
    /\ UNCHANGED aux_vars

\* stack::tests::iter_test: the Stack itself is the iterator, next to
\* reference.into_iter()
StackIntoIter ==
    /\ Running /\ target = "Stack" /\ ~into_iter
    /\ into_iter' = TRUE
    /\ ref_iter' = reference
    /\ yielded' = <<>>
    /\ op' = "into_iter" /\ arg' = 0 /\ ret' = None /\ ref_ret' = None
    /\ UNCHANGED <<config_vars, cvec, stack, reference, panic, cvec_iter, iters,
                   handles, deque>>
    /\ evicted' = None
    /\ UNCHANGED aux_vars

StackNext ==
    /\ Running /\ target = "Stack" /\ into_iter
    /\ LET r == Stack_next(stack) IN
       /\ stack' = r.s /\ ret' = r.ret /\ panic' = r.panic
       /\ yielded' = IF is_some(r.ret) THEN Append(yielded, unwrap(r.ret))
                     ELSE yielded
    /\ ref_ret' = IF ref_iter = <<>> THEN None ELSE Some(Head(ref_iter))
    /\ ref_iter' = IF ref_iter = <<>> THEN <<>> ELSE Tail(ref_iter)
    /\ op' = "into_iter_next" /\ arg' = 0
    /\ UNCHANGED <<config_vars, cvec, reference, cvec_iter, iters, into_iter,
                   handles, deque>>
    /\ evicted' = None
    /\ UNCHANGED aux_vars

\* ------------------------------------------------------------ Deque calls
\* each next to the same call on the VecDeque `reference`
DequePushBack(v) ==
    /\ Running /\ target = "Deque" /\ Len(reference) < MaxLen
    /\ deque' = Deque_push_back(deque, v)
    /\ reference' = Append(reference, v)
    /\ op' = "push_back" /\ arg' = 0 /\ ret' = None /\ ref_ret' = None
    /\ UNCHANGED <<config_vars, cvec, stack, panic, iter_vars, evicted, handles>>
    /\ UNCHANGED aux_vars

DequePushFront(v) ==
    /\ Running /\ target = "Deque" /\ Len(reference) < MaxLen
    /\ deque' = Deque_push_front(deque, v)
    /\ reference' = <<v>> \o reference
    /\ op' = "push_front" /\ arg' = 0 /\ ret' = None /\ ref_ret' = None
    /\ UNCHANGED <<config_vars, cvec, stack, panic, iter_vars, evicted, handles>>
    /\ UNCHANGED aux_vars

DequePopBack ==
    /\ Running /\ target = "Deque"
    /\ LET r == Deque_pop_back(deque)
           p == VecDeque_pop_back(reference) IN
       /\ deque' = r.d /\ ret' = r.ret /\ panic' = r.panic
       /\ reference' = p.vec /\ ref_ret' = p.ret
    /\ op' = "pop_back" /\ arg' = 0
    /\ UNCHANGED <<config_vars, cvec, stack, iter_vars, evicted, handles>>
    /\ UNCHANGED aux_vars

DequePopFront ==
    /\ Running /\ target = "Deque"
    /\ LET r == Deque_pop_front(deque)
           p == VecDeque_pop_front(reference) IN
       /\ deque' = r.d /\ ret' = r.ret /\ panic' = r.panic
       /\ reference' = p.vec /\ ref_ret' = p.ret
    /\ op' = "pop_front" /\ arg' = 0
    /\ UNCHANGED <<config_vars, cvec, stack, iter_vars, evicted, handles>>
    /\ UNCHANGED aux_vars

Next ==
    \/ \E v \in Elems : Push(v)
    \/ Pop
    \/ \E idx \in Indices : GetRef(idx)
    \/ \E idx \in Indices : Get(idx)
    \/ \E idx \in Indices : GetUncached(idx)
    \/ RoundTrip
    \/ Iter
    \/ IterNext
    \/ IterDrop
    \/ IntoIter
    \/ IntoIterNext
    \/ \E v \in Elems : StackPush(v)
    \/ StackPop
    \/ StackIntoIter
    \/ StackNext
    \/ \E v \in Elems : DequePushBack(v)
    \/ \E v \in Elems : DequePushFront(v)
    \/ DequePopBack
    \/ DequePopFront

Spec == Init /\ [][Next]_vars

\* decompress::<CVec<T, chunk_elems, q, C>>(&data) on the bytes of a container
\* whose chunk capacity was another one: the serialized form carries no
\* capacity, the chunks keep the element count they were encoded with
\* (taken once, from a container that was built with its own capacity)
DeserializeAs(chunk_elems) ==
    /\ Idle /\ chunk_elems # CHUNK_ELEMS
    /\ cvec.compressed_storage # <<>>
    /\ \A i \in 1..Len(cvec.compressed_storage) :
         Len(decompress(cvec.compressed_storage[i]).val) = CHUNK_ELEMS
    /\ LET r == CVec_decompress(CVec_compress(cvec, COMPRESSION_LEVEL)) IN
       cvec' = r.val /\ panic' = r.panic
    /\ CHUNK_ELEMS' = chunk_elems
    /\ op' = "deserialize_as" /\ arg' = 0 /\ ret' = None /\ ref_ret' = None
    /\ evicted' = None
    /\ UNCHANGED <<target, COMPRESSION_LEVEL, strategy, stack, reference, iter_vars,
                   handles, deque>>
    /\ UNCHANGED aux_vars

InitCVec == Init /\ target = "CVec" /\ COMPRESSION_LEVEL = 0

NextCorrupt ==
    \/ \E v \in Elems : Push(v)
    \/ Pop
    \/ \E idx \in Indices : GetRef(idx)
    \/ \E idx \in Indices : Get(idx)
    \/ \E idx \in Indices : GetUncached(idx)
    \/ Iter
    \/ IterNext
    \/ \E chunk_elems \in ChunkCapacities : DeserializeAs(chunk_elems)

\* the CVec calls on a container that may have been reconstructed from the
\* bytes of a container of another chunk capacity
SpecCorrupt == InitCVec /\ [][NextCorrupt]_vars

\* ---------------------------------------------------- EntryRef handles
\* self.cache.get_compressed(chunk_idx, chunk_offset, data).borrow(), the
\* expression of CVecInner::get, with the EntryRef kept alive instead of
\* being cloned from and dropped; Entry::Uncompressed for a tail index
EntryBorrow(idx) ==
    /\ Idle /\ strategy = "RcCached"
    /\ Len(handles) < MaxHandles
    /\ LET s == split(cvec, idx, CHUNK_ELEMS) IN
       /\ s.kind # "None"
       /\ IF s.kind = "Uncompressed"
          THEN /\ handles' = Append(handles, [kind |-> "Uncompressed",
                                              offset |-> s.offset, idx |-> idx])
               /\ ret' = Some(cvec.uncompressed_buffer[s.offset + 1])
               /\ UNCHANGED <<cvec, panic>>
          ELSE LET b == Entry_borrow(cvec.cache, s.chunk_idx, s.offset,
                            cvec.compressed_storage[s.chunk_idx + 1],
                            CHUNK_ELEMS) IN
               /\ cvec' = [cvec EXCEPT !.cache = b.cache]
               /\ panic' = b.panic
               /\ IF b.panic.kind # "none"
                  THEN ret' = None /\ handles' = handles
                  ELSE /\ ret' = Some(EntryRef_deref(b.cache, s.offset))
                       /\ handles' = Append(handles, [kind |-> "Compressed",
                                              offset |-> s.offset, idx |-> idx])
    /\ ref_ret' = Vec_get(reference, idx)
    /\ op' = "borrow" /\ arg' = idx
    /\ evicted' = None
    /\ UNCHANGED <<config_vars, stack, reference, iter_vars, deque>>
    /\ UNCHANGED aux_vars

\* *handle on the i-th live handle
EntryDeref(i) ==
    /\ Idle /\ i \in 1..Len(handles)
    /\ ret' = Some(EntryRef_read(cvec, handles[i]))
    /\ ref_ret' = Vec_get(reference, handles[i].idx)
    /\ op' = "deref" /\ arg' = handles[i].idx
    /\ evicted' = None
    /\ UNCHANGED <<config_vars, cvec, stack, reference, panic, iter_vars,
                   handles, deque>>
    /\ UNCHANGED aux_vars

\* the i-th live handle goes out of scope: its Ref, if it holds one, is
\* dropped
EntryDrop(i) ==
    /\ Idle /\ i \in 1..Len(handles)
    /\ handles' = SubSeq(handles, 1, i - 1) \o SubSeq(handles, i + 1, Len(handles))
    /\ cvec' = IF handles[i].kind = "Compressed"
               THEN [cvec EXCEPT !.cache = Ref_drop(@)] ELSE cvec
    /\ op' = "drop_ref" /\ arg' = 0 /\ ret' = None /\ ref_ret' = None
    /\ evicted' = None
    /\ UNCHANGED <<config_vars, stack, reference, panic, iter_vars, deque>>
    /\ UNCHANGED aux_vars

InitHandles ==
    Init /\ target = "CVec" /\ strategy = "RcCached" /\ COMPRESSION_LEVEL = 0

NextHandles ==
    \/ \E v \in Elems : Push(v)
    \/ Pop
    \/ \E idx \in Indices : Get(idx)
    \/ \E idx \in Indices : EntryBorrow(idx)
    \/ \E i \in 1..MaxHandles : EntryDeref(i)
    \/ \E i \in 1..MaxHandles : EntryDrop(i)

\* a CVecRc whose read handles are held, read and dropped in any order; push
\* and pop need the container unborrowed
SpecHandles == InitHandles /\ [][NextHandles]_vars

\* ---------------------------------------------------------- construction
\* a program about to construct a CVec, CVecRc or CVecUncached with any
\* values of the two const generics; nothing is constructed yet
InitConstruct ==
    /\ target = "CVec"
    /\ CHUNK_ELEMS \in AnyChunkCapacities
    /\ COMPRESSION_LEVEL \in AnyQualities
    /\ strategy \in Strategies
    /\ cvec = CVec_default
    /\ stack = Stack_new_with_options(0, 0)
    /\ deque = Deque_new_with_options(0, 0)
    /\ reference = <<>>
    /\ op = "start" /\ arg = 0 /\ ret = None /\ ref_ret = None
    /\ panic = NoPanic
    /\ cvec_iter = None /\ ref_iter = <<>> /\ yielded = <<>>
    /\ iters = 0 /\ into_iter = FALSE
    /\ evicted = None
    /\ handles = <<>>
    /\ chunksize = ChunkSize("SizeElements", 0)
    /\ elementsize = 1
    /\ counts = NoCounts
    /\ entries = <<>>

\* CVec::new::<CHUNK_ELEMS, COMPRESSION_LEVEL>() and its two siblings
New ==
    /\ op = "start"
    /\ LET r == CVec_new(CHUNK_ELEMS, COMPRESSION_LEVEL) IN
       cvec' = r.c /\ panic' = r.panic
    /\ op' = "new"
    /\ UNCHANGED <<config_vars, stack, reference, arg, ret, ref_ret, iter_vars,
                   evicted, handles, deque>>
    /\ UNCHANGED aux_vars

\* CVecInner::default()
Default ==
    /\ op = "start"
    /\ LET r == CVecInner_default(CHUNK_ELEMS, COMPRESSION_LEVEL) IN
       cvec' = r.c /\ panic' = r.panic
    /\ op' = "default"
    /\ UNCHANGED <<config_vars, stack, reference, arg, ret, ref_ret, iter_vars,
                   evicted, handles, deque>>
    /\ UNCHANGED aux_vars

\* xs.into_iter().collect(), next to the Vec xs
FromIter(xs) ==
    /\ op = "start"
    /\ LET r == CVec_from_iter(xs, CHUNK_ELEMS, COMPRESSION_LEVEL) IN
       cvec' = r.c /\ panic' = r.panic
    /\ reference' = xs
    /\ op' = "from_iter"
    /\ UNCHANGED <<config_vars, stack, arg, ret, ref_ret, iter_vars,
                   evicted, handles, deque>>
    /\ UNCHANGED aux_vars

NextConstruct ==
    \/ New
    \/ Default
    \/ \E xs \in InputSequences : FromIter(xs)
    \/ op # "start" /\ \E v \in Elems : Push(v)
    \/ op # "start" /\ Pop
    \/ op # "start" /\ RoundTrip

\* a container constructed in one of the three ways and then pushed to,
\* popped from and snapshotted
SpecConstruct == InitConstruct /\ [][NextConstruct]_vars

\* ------------------------------------------------- the concrete scenario
\* CVec::new::<9, 0>() (or CVecRc, CVecUncached), as tests::simple_test with
\* its sizes divided by 1024
InitScenario ==
    /\ target = "CVec" /\ CHUNK_ELEMS = 9 /\ COMPRESSION_LEVEL = 0
    /\ strategy \in Strategies
    /\ cvec = CVecInner_default(9, 0).c
    /\ stack = Stack_new_with_options(0, 0)
    /\ deque = Deque_new_with_options(0, 0)
    /\ reference = <<>>
    /\ op = "new" /\ arg = 0 /\ ret = None /\ ref_ret = None
    /\ panic = NoPanic
    /\ cvec_iter = None /\ ref_iter = <<>> /\ yielded = <<>>
    /\ iters = 0 /\ into_iter = FALSE
    /\ evicted = None
    /\ handles = <<>>
    /\ chunksize = ChunkSize("SizeElements", 0)
    /\ elementsize = 1
    /\ counts = NoCounts
    /\ entries = <<>>

\* for i in 0..10 { c.push(i) }: the next push of the loop
ScenarioPush ==
    /\ Idle /\ op \in {"new", "push"} /\ Len(reference) < 10
    /\ cvec' = CVec_push(cvec, Len(reference), CHUNK_ELEMS, COMPRESSION_LEVEL)
    /\ reference' = Append(reference, Len(reference))
    /\ op' = "push" /\ arg' = 0 /\ ret' = None /\ ref_ret' = None
    /\ UNCHANGED <<config_vars, stack, panic, iter_vars, evicted, handles, deque>>
    /\ UNCHANGED aux_vars

\* the loop of pushes has run to its end
ScenarioPushed == op # "new" /\ (op = "push" => Len(reference) = 10)

NextScenario ==
    \/ ScenarioPush
    \/ ScenarioPushed /\ \E idx \in 0..10 : GetRef(idx)
    \/ ScenarioPushed /\ \E idx \in 0..10 : Get(idx)
    \/ ScenarioPushed /\ \E idx \in 0..10 : GetUncached(idx)
    \/ ScenarioPushed /\ Pop

\* ten pushes of 0..10 onto a container of chunk capacity 9 and quality 0,
\* then reads and pops in any order
SpecScenario == InitScenario /\ [][NextScenario]_vars

\* ------------------------------------------- Stack and Deque construction
\* a Stack or a Deque is still to be constructed, for one ChunkSize and one
\* element type
InitOptions ==
    /\ target \in {"Stack", "Deque"}
    /\ COMPRESSION_LEVEL \in Qualities
    /\ chunksize \in ChunkSizes
    /\ elementsize \in ElementSizes
    /\ CHUNK_ELEMS = 1 /\ strategy = "Uncached"
    /\ cvec = CVec_default
    /\ stack = Stack_new_with_options(0, 0)
    /\ deque = Deque_new_with_options(0, 0)
    /\ reference = <<>>
    /\ op = "start" /\ arg = 0 /\ ret = None /\ ref_ret = None
    /\ panic = NoPanic
    /\ cvec_iter = None /\ ref_iter = <<>> /\ yielded = <<>>
    /\ iters = 0 /\ into_iter = FALSE
    /\ evicted = None
    /\ handles = <<>>
    /\ counts = NoCounts
    /\ entries = <<>>

\* Stack::new()
StackNew ==
    /\ op = "start" /\ target = "Stack"
    /\ \E r \in Stack_new(elementsize) : stack' = r.s /\ panic' = r.panic
    /\ op' = "new"
    /\ UNCHANGED <<config_vars, cvec, reference, arg, ret, ref_ret, iter_vars,
                   evicted, handles, deque, aux_vars>>

\* Stack::new_with_options(chunksize, COMPRESSION_LEVEL)
StackNewWithOptions ==
    /\ op = "start" /\ target = "Stack"
    /\ \E r \in Stack_with_options(chunksize, elementsize, COMPRESSION_LEVEL) :
          stack' = r.s /\ panic' = r.panic
    /\ op' = "new_with_options"
    /\ UNCHANGED <<config_vars, cvec, reference, arg, ret, ref_ret, iter_vars,
                   evicted, handles, deque, aux_vars>>

\* Deque::new()
DequeNew ==
    /\ op = "start" /\ target = "Deque"
    /\ \E r \in Deque_new(elementsize) : deque' = r.d /\ panic' = r.panic
    /\ op' = "new"
    /\ UNCHANGED <<config_vars, cvec, reference, arg, ret, ref_ret, iter_vars,
                   evicted, handles, stack, aux_vars>>

\* Deque::new_with_options(chunksize, COMPRESSION_LEVEL)
DequeNewWithOptions ==
    /\ op = "start" /\ target = "Deque"
    /\ \E r \in Deque_with_options(chunksize, elementsize, COMPRESSION_LEVEL) :
          deque' = r.d /\ panic' = r.panic
    /\ op' = "new_with_options"
    /\ UNCHANGED <<config_vars, cvec, reference, arg, ret, ref_ret, iter_vars,
                   evicted, handles, stack, aux_vars>>

NextOptions ==
    \/ StackNew
    \/ StackNewWithOptions
    \/ DequeNew
    \/ DequeNewWithOptions
    \/ op # "start" /\ \E v \in Elems : StackPush(v)
    \/ op # "start" /\ StackPop
    \/ op # "start" /\ \E v \in Elems : DequePushBack(v)
    \/ op # "start" /\ \E v \in Elems : DequePushFront(v)
    \/ op # "start" /\ DequePopBack
    \/ op # "start" /\ DequePopFront

\* a Stack or a Deque constructed in one of its two ways and then pushed to
\* and popped from
SpecOptions == InitOptions /\ [][NextOptions]_vars

\* ------------------------------------------------- pushes, pops, reads
NextReads ==
    \/ \E v \in Elems : Push(v)
    \/ Pop
    \/ \E idx \in Indices : GetRef(idx)
    \/ \E idx \in Indices : Get(idx)
    \/ \E idx \in Indices : GetUncached(idx)
    \/ RoundTrip

\* the calls that change or read a CVec of any chunk capacity and cache
\* strategy, in any order
SpecReads == InitCVec /\ [][NextReads]_vars

\* ------------------------------------------------------ reads
NextBorrowed ==
    \/ \E v \in Elems : Push(v)
    \/ Pop
    \/ \E idx \in Indices : GetRef(idx)
    \/ \E idx \in Indices : Get(idx)
    \/ \E idx \in Indices : GetUncached(idx)
    \/ Iter
    \/ IterNext
    \/ IterDrop

\* a CVec that is read by index and through borrowing iterators between
\* pushes and pops
SpecBorrowed == InitCVec /\ [][NextBorrowed]_vars

\* ------------------------------------------------------ serialization
NextSerialize ==
    \/ \E v \in Elems : Push(v)
    \/ Pop
    \/ \E idx \in Indices : GetRef(idx)
    \/ \E idx \in Indices : Get(idx)
    \/ RoundTrip
    \/ \E chunk_elems \in ChunkCapacities : DeserializeAs(chunk_elems)

\* a CVec that is snapshotted and reconstructed, as its own type or as the
\* CVec type of another chunk capacity, between pushes, pops and cached reads
SpecSerialize == InitCVec /\ [][NextSerialize]_vars

\* ------------------------------------------------- encodes and decodes
\* push, counting the call and the chunk encoded by it, if any
CountedPush(v) ==
    /\ Idle /\ handles = <<>> /\ Len(reference) < MaxLen
    /\ counts.pushes < MaxPushes
    /\ cvec' = CVec_push(cvec, v, CHUNK_ELEMS, COMPRESSION_LEVEL)
    /\ reference' = Append(reference, v)
    /\ op' = "push" /\ arg' = 0 /\ ret' = None /\ ref_ret' = None
    /\ counts' = [counts EXCEPT
                    !.pushes = @ + 1,
                    !.encodes = @ + Len(cvec'.compressed_storage)
                                  - Len(cvec.compressed_storage)]
    /\ UNCHANGED <<config_vars, stack, panic, iter_vars, handles, deque,
                   evicted, chunksize, elementsize, entries>>

\* pop, counting the chunk decoded by it, if any
CountedPop ==
    /\ Idle /\ handles = <<>>
    /\ LET r == CVec_pop(cvec, strategy)
           p == Vec_pop(reference) IN
       /\ cvec' = r.c /\ ret' = r.ret /\ panic' = r.panic
       /\ reference' = p.vec /\ ref_ret' = p.ret
    /\ op' = "pop" /\ arg' = 0
    /\ counts' = [counts EXCEPT
                    !.decodes = @ + Len(cvec.compressed_storage)
                                  - Len(cvec'.compressed_storage)]
    /\ UNCHANGED <<config_vars, stack, iter_vars, handles, deque,
                   evicted, chunksize, elementsize, entries>>

NextCounted ==
    \/ \E v \in Elems : CountedPush(v)
    \/ CountedPop

\* pushes and pops in any order on a CVec, with the calls counted
SpecCounted == InitCVec /\ [][NextCounted]_vars

\* --------------------------------------------------------- lazy handles
\* the Entry handles a caller holds on the CVecRc
HandleNames == {"a", "b"}

\* self.cache.get_compressed(chunk_idx, chunk_offset, data), as in
\* CVecInner::get, kept by the caller as the Entry `h`
EntryCreate(h, idx) ==
    /\ Idle /\ strategy = "RcCached" /\ handles = <<>>
    /\ h \notin DOMAIN entries
    /\ LET s == split(cvec, idx, CHUNK_ELEMS) IN
       /\ s.kind = "Compressed"
       /\ entries' = [x \in DOMAIN entries \cup {h} |->
                        IF x = h
                        THEN [entry |-> RcCached_get_compressed(s.chunk_idx,
                                                                s.offset),
                              idx |-> idx, derefs |-> 0, fills |-> 0]
                        ELSE entries[x]]
    /\ op' = "get_compressed" /\ arg' = idx
    /\ ret' = None /\ ref_ret' = None
    /\ evicted' = None
    /\ UNCHANGED <<config_vars, cvec, stack, reference, panic, iter_vars,
                   handles, deque, chunksize, elementsize, counts>>

\* *h.borrow(): the Entry `h` is borrowed, the element read and the
\* temporary EntryRef dropped; the fills of the handle are counted
EntryUse(h) ==
    /\ Idle /\ h \in DOMAIN entries
    /\ entries[h].derefs < MaxDerefs
    /\ LET e == entries[h].entry
           b == Entry_borrow(cvec.cache, e.index, e.offset,
                             cvec.compressed_storage[e.index + 1],
                             CHUNK_ELEMS) IN
       /\ panic' = b.panic
       /\ IF b.panic.kind # "none"
          THEN /\ ret' = None
               /\ cvec' = [cvec EXCEPT !.cache = b.cache]
          ELSE /\ ret' = Some(EntryRef_deref(b.cache, e.offset))
               /\ cvec' = [cvec EXCEPT !.cache = Ref_drop(b.cache)]
       /\ entries' = [entries EXCEPT ![h].derefs = @ + 1,
                                     ![h].fills = @ + b.decodes]
    /\ ref_ret' = Vec_get(reference, entries[h].idx)
    /\ op' = "entry_borrow" /\ arg' = entries[h].idx
    /\ evicted' = None
    /\ UNCHANGED <<config_vars, stack, reference, iter_vars, handles, deque,
                   chunksize, elementsize, counts>>

\* the Entry `h` goes out of scope
EntryForget(h) ==
    /\ Idle /\ h \in DOMAIN entries
    /\ entries' = [x \in DOMAIN entries \ {h} |-> entries[x]]
    /\ op' = "drop_entry" /\ arg' = 0 /\ ret' = None /\ ref_ret' = None
    /\ evicted' = None
    /\ UNCHANGED <<config_vars, cvec, stack, reference, panic, iter_vars,
                   handles, deque, chunksize, elementsize, counts>>

NextEntries ==
    \/ DOMAIN entries = {} /\ \E v \in Elems : Push(v)
    \/ DOMAIN entries = {} /\ Pop
    \/ \E h \in HandleNames, idx \in Indices : EntryCreate(h, idx)
    \/ \E h \in HandleNames : EntryUse(h)
    \/ \E h \in HandleNames : EntryForget(h)

\* a CVecRc whose lazy handles are created, dereferenced and dropped in any
\* order; an Entry borrows the container, so push and pop wait for the
\* handles to be gone
SpecEntries == InitHandles /\ [][NextEntries]_vars

\* ================================================================ claims
\* the CVec is the container under test and has not been moved
CVecLive == target = "CVec" /\ ~into_iter
Reads == {"get_ref", "get", "get_uncached"}

\* C1: driven by the same pushes and pops (with reads in between), for every
\* chunk capacity and cache strategy, a pop on the CVec returns what the pop
\* on the plain Vec returns, and after every call len() is the Vec's length
\* and is_empty() holds exactly when that length is 0; nothing panics.
C1_PopAndLenMatchVec ==
    CVecLive =>
        /\ panic = NoPanic
        /\ CVec_len(cvec, CHUNK_ELEMS) = Len(reference)
        /\ CVec_is_empty(cvec) <=> (Len(reference) = 0)
        /\ (op = "pop" => ret = ref_ret)

\* a pop that has just decoded the last of several chunks into the tail,
\* with a chunk still cached from an earlier read
C1_Witness ==
    /\ CVecLive /\ op = "pop" /\ is_some(ret)
    /\ CHUNK_ELEMS >= 2
    /\ cvec.compressed_storage # <<>>
    /\ Len(cvec.uncompressed_buffer) = CHUNK_ELEMS - 1
    /\ is_some(cvec.cache.data)

\* C2: an indexed read at i < len() through get_ref (exclusive cache), get
\* (shared cache) or get_uncached returns the element the Vec holds at i,
\* whatever the cache slot held when the read was made.
C2_IndexedReadsMatchVec ==
    (CVecLive /\ op \in Reads /\ arg < Len(reference)) =>
        /\ panic = NoPanic
        /\ ret = Some(reference[arg + 1])
        /\ ret = ref_ret

\* a cached read of the last index of the last compressed chunk, next to a
\* non-empty tail, the neighbouring elements being different from it
C2_Witness ==
    /\ CVecLive /\ op \in {"get_ref", "get"}
    /\ cvec.compressed_storage # <<>>
    /\ cvec.uncompressed_buffer # <<>>
    /\ arg = Len(cvec.compressed_storage) * CHUNK_ELEMS - 1
    /\ CHUNK_ELEMS >= 2
    /\ ret = Some(reference[arg + 1])
    /\ reference[arg + 1] # reference[arg]
    /\ reference[arg + 1] # reference[arg + 2]

\* C3: once a pop has removed compressed chunk k while the cache mirrored
\* it, then after any further pops and the pushes that store a new chunk at
\* index k, a get_ref/get inside chunk k returns the element now held at
\* that index (the newly pushed one), never the removed chunk's element.
C3_NoStaleReadAfterPop ==
    (CVecLive /\ EvictedRead) =>
        /\ ret = Some(reference[arg + 1])
        /\ is_cached(strategy, cvec.cache, arg \div CHUNK_ELEMS)
        /\ unwrap(cvec.cache.data)[(arg % CHUNK_ELEMS) + 1] = reference[arg + 1]

\* such a read at an index whose element differs from the one the removed
\* chunk held there
C3_Witness ==
    /\ CVecLive /\ EvictedRead
    /\ unwrap(evicted).data[(arg % CHUNK_ELEMS) + 1] # reference[arg + 1]
    /\ ret = Some(reference[arg + 1])

\* C4: for a container x in any reachable state (no, one or many chunks, any
\* tail, any cache state) deserialize(serialize(x)) does not fail, has the
\* length of x, the element of x at every index, and compares equal to x;
\* and the container a round trip has replaced still holds the Vec's
\* elements.
C4_RoundTripLaw ==
    CVecLive =>
        /\ \A q \in Qualities :
             LET y == CVec_decompress(CVec_compress(cvec, q)) IN
             /\ y.panic = NoPanic
             /\ CVec_len(y.val, CHUNK_ELEMS) = CVec_len(cvec, CHUNK_ELEMS)
             /\ \A i \in 0..(CVec_len(cvec, CHUNK_ELEMS) - 1) :
                  get_uncached(y.val, i, CHUNK_ELEMS)
                      = get_uncached(cvec, i, CHUNK_ELEMS)
             /\ CVec_eq(y.val, cvec)
        /\ op = "roundtrip" =>
             /\ panic = NoPanic
             /\ CVec_len(cvec, CHUNK_ELEMS) = Len(reference)
             /\ \A i \in 0..(Len(reference) - 1) :
                  get_uncached(cvec, i, CHUNK_ELEMS).ret = Some(reference[i + 1])

\* a container of several chunks with two different elements, just
\* reconstructed from its bytes
C4_Witness ==
    /\ CVecLive /\ op = "roundtrip"
    /\ Len(cvec.compressed_storage) >= 2
    /\ \E i, j \in 1..Len(reference) : reference[i] # reference[j]

\* C5: a read (get_ref, get, get_uncached) at an index i >= len() returns
\* None, raises no error, and leaves chunk list, tail and cache unchanged.
C5_OutOfRangeIsNone ==
    [][(target = "CVec" /\ op' \in Reads /\ arg' >= CVec_len(cvec, CHUNK_ELEMS)) =>
          /\ ret' = None
          /\ panic' = NoPanic
          /\ cvec' = cvec]_vars

\* a cached read past the end, in the chunk number of the tail, with a
\* chunk in the cache and a non-empty tail
C5_Witness ==
    /\ CVecLive /\ op \in {"get_ref", "get"}
    /\ arg > CVec_len(cvec, CHUNK_ELEMS)
    /\ arg \div CHUNK_ELEMS = Len(cvec.compressed_storage)
    /\ cvec.uncompressed_buffer # <<>>
    /\ is_some(cvec.cache.data)
    /\ ret = None

\* C6: a borrowing iterator created over the container in any reachable
\* state yields, up to exhaustion, exactly len() items, the j-th being the
\* indexed read at j (and the Vec iterator's j-th item), and only then None;
\* an iterator created again afterwards does the same.
C6_BorrowingIterMatchesReads ==
    (CVecLive /\ cvec_iter # None) =>
        /\ panic = NoPanic
        /\ Len(yielded) <= CVec_len(cvec, CHUNK_ELEMS)
        /\ \A j \in 1..Len(yielded) :
             Some(yielded[j]) = get_uncached(cvec, j - 1, CHUNK_ELEMS).ret
        /\ op = "iter_next" =>
             /\ ret = ref_ret
             /\ is_none(ret) => Len(yielded) = CVec_len(cvec, CHUNK_ELEMS)

\* the second iterator in a row, exhausted over a chunk and a tail that
\* hold different elements
C6_Witness ==
    /\ CVecLive /\ cvec_iter # None /\ iters = 2
    /\ op = "iter_next" /\ is_none(ret)
    /\ cvec.compressed_storage # <<>> /\ cvec.uncompressed_buffer # <<>>
    /\ CHUNK_ELEMS >= 2
    /\ yielded = reference
    /\ reference # Reverse(reference)

\* C7: the owning iterator terminates: every next() takes one item off the
\* container, it yields exactly len() items and then None, and the items are
\* those that len() successive pop() calls on the container return.
C7_OwningIterDrains ==
    (target = "CVec" /\ into_iter) =>
        /\ panic = NoPanic
        /\ Len(yielded) + CVec_len(cvec, CHUNK_ELEMS) = Len(reference)
        /\ yielded \o pops(cvec, strategy, CVec_len(cvec, CHUNK_ELEMS))
               = Reverse(reference)
        /\ op = "into_iter_next" =>
             (is_none(ret) <=> (Len(yielded) = Len(reference) /\ CVec_is_empty(cvec)
                                /\ is_none(ref_ret)))

\* an owning iterator exhausted after decoding chunks, over elements that do
\* not read the same in both directions
C7_Witness ==
    /\ target = "CVec" /\ into_iter
    /\ op = "into_iter_next" /\ is_none(ret)
    /\ CHUNK_ELEMS = 2 /\ Len(yielded) >= 4
    /\ yielded = Reverse(reference)
    /\ reference # Reverse(reference)

\* C8 as stated: the owning iterator of the CVec, and the Stack used as an
\* iterator, yield item by item what Vec::into_iter yields over the same
\* pushes, and return None at the same step.
C8_SameItemsAsVecIntoIter ==
    (into_iter /\ op = "into_iter_next") => ret = ref_ret

\* C8 amended: both return None at the same step (after as many items as
\* were pushed), and the j-th item of the container's iterator is the j-th
\* item from the end of Vec::into_iter's sequence; the two agree item by
\* item when the pushed sequence reads the same in both directions.
C8_ReverseOfVecIntoIter ==
    (into_iter /\ op = "into_iter_next") =>
        /\ panic = NoPanic
        /\ is_some(ret) <=> is_some(ref_ret)
        /\ is_some(ret) =>
             /\ unwrap(ret) = reference[Len(reference) - Len(yielded) + 1]
             /\ unwrap(ref_ret) = reference[Len(yielded)]
        /\ is_none(ret) => Len(yielded) = Len(reference)
        /\ reference = Reverse(reference) => ret = ref_ret

\* a Stack with chunks, iterated to the end over pushes that do not read the
\* same in both directions
C8_Witness ==
    /\ target = "Stack" /\ into_iter
    /\ op = "into_iter_next" /\ is_none(ret) /\ is_none(ref_ret)
    /\ stack.chunk_size = 2 /\ Len(reference) >= 3
    /\ yielded = Reverse(reference)
    /\ reference # Reverse(reference)

\* C9: pop() returns None exactly when the container is empty, and then
\* leaves the chunk list, the (empty) tail and the cache slot unchanged.
C9_PopNoneIffEmpty ==
    [][(target = "CVec" /\ op' = "pop") =>
          /\ panic' = NoPanic
          /\ is_none(ret') <=> (CVec_len(cvec, CHUNK_ELEMS) = 0)
          /\ is_none(ret') =>
               /\ cvec' = cvec
               /\ cvec'.uncompressed_buffer = <<>>
               /\ cvec'.compressed_storage = <<>>]_vars

\* a pop returning None on a container that had held a cached chunk
C9_Witness ==
    /\ CVecLive /\ op = "pop" /\ is_none(ret) /\ is_none(ref_ret)
    /\ is_some(evicted)
    /\ CVec_is_empty(cvec)

\* the stored chunk that call `o` with index `a` decodes in the current
\* state, if it decodes one
ChunkDecodedBy(o, a) ==
    LET sp == split(cvec, a, CHUNK_ELEMS) IN
    IF o = "pop"
    THEN IF cvec.uncompressed_buffer = <<>> /\ cvec.compressed_storage # <<>>
         THEN Some(Last(cvec.compressed_storage)) ELSE None
    ELSE IF o \in Reads
    THEN IF sp.kind = "Compressed"
            /\ (o = "get_uncached" \/ ~is_cached(strategy, cvec.cache, sp.chunk_idx))
         THEN Some(cvec.compressed_storage[sp.chunk_idx + 1]) ELSE None
    ELSE IF o = "iter_next" /\ cvec_iter # None
    THEN IF unwrap(cvec_iter).rest = <<>>
            /\ unwrap(cvec_iter).chunk_idx < Len(cvec.compressed_storage)
         THEN Some(cvec.compressed_storage[unwrap(cvec_iter).chunk_idx + 1])
         ELSE None
    ELSE None

\* C10: every operation that decodes a stored chunk holding a number of
\* elements other than CHUNK_ELEMS (pop, get_uncached, get_ref, get, the
\* borrowing iterator) ends in the corruption error that carries the
\* observed and the expected element count, and returns no element.
C10_CorruptChunkIsReported ==
    [][LET ch == ChunkDecodedBy(op', arg') IN
       (target = "CVec" /\ is_some(ch)
        /\ Len(decompress(unwrap(ch)).val) # CHUNK_ELEMS) =>
           /\ panic' = Panic("invalid_length",
                             Len(decompress(unwrap(ch)).val), CHUNK_ELEMS)
           /\ is_none(ret')]_vars

\* the live handles that hold a Ref into the cache slot
CompressedHandles == {i \in 1..Len(handles) : handles[i].kind = "Compressed"}

\* C11: with the shared cache, while an EntryRef into cached chunk A is
\* alive, borrowing (or get) at an index of another chunk B panics with the
\* RefCell's already-borrowed error, the slot is not refilled (it still
\* mirrors A, with the same borrow count) and every live handle still reads
\* the element it was asked for.
C11_RefillUnderLiveHandleAborts ==
    [][(/\ op' \in {"borrow", "get"}
        /\ CompressedHandles # {}
        /\ split(cvec, arg', CHUNK_ELEMS).kind = "Compressed"
        /\ ~Cached_is_cached(cvec.cache, arg' \div CHUNK_ELEMS)) =>
           /\ panic' = Panic("already_borrowed", 0, 0)
           /\ ret' = None
           /\ cvec'.cache = cvec.cache
           /\ handles' = handles
           /\ \A i \in 1..Len(handles) :
                EntryRef_read(cvec', handles[i]) = reference[handles[i].idx + 1]]_vars

\* the program aborted on a borrow into another chunk while a handle into
\* the cached chunk was alive, the slot still holding that chunk and the
\* handle's element differing from the one asked for
C11_Witness ==
    /\ op = "borrow" /\ panic.kind = "already_borrowed"
    /\ Cardinality(CompressedHandles) = 1
    /\ is_some(cvec.cache.data)
    /\ arg \div CHUNK_ELEMS # cvec.cache.index
    /\ cvec.cache.borrow = 1
    /\ \A i \in CompressedHandles :
         /\ handles[i].idx \div CHUNK_ELEMS = cvec.cache.index
         /\ EntryRef_read(cvec, handles[i]) # reference[arg + 1]

\* C12: with the shared cache, a borrow into the chunk the slot mirrors
\* succeeds however many handles into that chunk are alive, and does not
\* decode: the slot keeps its index and data and counts one more shared
\* borrow; a borrow that misses with no handle alive decodes the chunk into
\* the slot once; every live handle, old or new, dereferences to the element
\* at the index it was asked for.
C12_HandlesShareOneDecode ==
    [][(op' \in {"borrow", "deref"}) =>
         LET s == split(cvec, arg', CHUNK_ELEMS)
             hit == s.kind = "Compressed"
                    /\ Cached_is_cached(cvec.cache, s.chunk_idx)
             miss == s.kind = "Compressed" /\ ~hit /\ CompressedHandles = {} IN
         /\ (op' = "borrow" /\ hit) =>
              /\ panic' = NoPanic
              /\ cvec'.cache.index = cvec.cache.index
              /\ cvec'.cache.data = cvec.cache.data
              /\ cvec'.cache.borrow = cvec.cache.borrow + 1
              /\ Len(handles') = Len(handles) + 1
         /\ (op' = "borrow" /\ miss) =>
              /\ panic' = NoPanic
              /\ cvec'.cache.index = s.chunk_idx
              /\ cvec'.cache.data =
                   Some(decompress(cvec.compressed_storage[s.chunk_idx + 1]).val)
              /\ cvec'.cache.borrow = 1
         /\ (op' = "deref" \/ hit \/ miss) =>
              /\ ret' = Some(reference[arg' + 1])
              /\ \A i \in 1..Len(handles') :
                   EntryRef_read(cvec', handles'[i])
                       = reference[handles'[i].idx + 1]]_vars

\* two handles alive into the same cached chunk at different offsets, the
\* second having been taken without a decode, reading different elements
C12_Witness ==
    /\ op = "deref" /\ panic = NoPanic
    /\ Cardinality(CompressedHandles) = 2
    /\ cvec.cache.borrow = 2
    /\ handles[1].idx # handles[2].idx
    /\ handles[1].idx \div CHUNK_ELEMS = handles[2].idx \div CHUNK_ELEMS
    /\ EntryRef_read(cvec, handles[1]) # EntryRef_read(cvec, handles[2])
    /\ ret = Some(EntryRef_read(cvec, handles[2]))

\* C13: right after a container is reconstructed from bytes its cache slot
\* is the default one, so is_cached(i) is false for every i, whatever the
\* cache of the serialized container held; and the bytes do not depend on
\* the cache.
C13_CacheEmptyAfterDeserialize ==
    [][(op' = "roundtrip") =>
         /\ panic' = NoPanic
         /\ cvec'.cache = Cached_default
         /\ \A i \in Indices \cup {cvec.cache.index, USIZE_MAX} :
              ~is_cached(strategy, cvec'.cache, i)
         /\ \A q \in Qualities :
              CVec_compress(cvec, q)
                  = CVec_compress([cvec EXCEPT !.cache = Cached_default], q)]_vars

\* a reconstruction of a container of several chunks whose cache mirrored
\* the second of them
C13_Witness ==
    /\ CVecLive /\ op = "roundtrip"
    /\ is_some(evicted) /\ unwrap(evicted).index = 1
    /\ Len(cvec.compressed_storage) >= 2
    /\ cvec.cache = Cached_default
    /\ ~is_cached(strategy, cvec.cache, 1)

\* where a live borrowing iterator stands: before its first next, inside a
\* chunk, at a boundary between chunks, between the last chunk and the tail,
\* inside the tail, or exhausted
IterPosition ==
    LET it == unwrap(cvec_iter)
        n == Len(cvec.compressed_storage) IN
    IF op = "iter" THEN "start"
    ELSE IF it.rest # <<>> THEN (IF it.side = "Left" THEN "chunk" ELSE "tail")
    ELSE IF it.chunk_idx < n THEN "boundary"
    ELSE IF it.chunk_idx = n THEN "transition"
    ELSE "exhausted"

\* C14: at every point of a borrowing iteration size_hint returns
\* (r, Some(r)) where r is the number of items the iterator has yet to
\* yield: len() less the items yielded so far.
C14_SizeHintIsExact ==
    (CVecLive /\ cvec_iter # None) =>
        LET r == CVec_len(cvec, CHUNK_ELEMS) - Len(yielded) IN
        /\ CVecIter_size_hint(unwrap(cvec_iter), cvec, CHUNK_ELEMS) = <<r, Some(r)>>
        /\ r = Len(ref_iter)
        /\ r >= 0

\* an iterator standing between the only chunk, of several elements, and a
\* non-empty tail
C14_Witness ==
    /\ CVecLive /\ cvec_iter # None /\ op = "iter_next"
    /\ IterPosition = "transition"
    /\ Len(cvec.compressed_storage) = 1 /\ CHUNK_ELEMS >= 2
    /\ cvec.uncompressed_buffer # <<>>
    /\ Len(yielded) = CHUNK_ELEMS
    /\ CVecIter_size_hint(unwrap(cvec_iter), cvec, CHUNK_ELEMS)
         = <<Len(cvec.uncompressed_buffer), Some(Len(cvec.uncompressed_buffer))>>

Constructors == {"new", "default", "from_iter"}

C17_FromIterIsRepeatedPush ==
    (CVecLive /\ op \in Constructors \cup {"push"} /\ panic = NoPanic) =>
        LET built == CVec_from_iter(reference, CHUNK_ELEMS, COMPRESSION_LEVEL) IN
        /\ built.panic = NoPanic
        /\ CVec_eq(cvec, built.c)
        /\ cvec = built.c
        /\ CVec_len(built.c, CHUNK_ELEMS) = Len(reference)
        /\ pops(built.c, strategy, Len(reference)) = Reverse(reference)
        /\ (reference = <<>>) =>
             /\ CVec_len(built.c, CHUNK_ELEMS) = 0
             /\ CVec_is_empty(built.c)
             /\ CVec_pop(built.c, strategy).ret = None
             /\ \A q \in Qualities :
                  LET y == CVec_decompress(CVec_compress(built.c, q)) IN
                  /\ y.panic = NoPanic
                  /\ CVec_eq(y.val, built.c)
                  /\ CVec_is_empty(y.val)
                  /\ CVec_len(y.val, CHUNK_ELEMS) = 0

\* a container built by hand, by new() and pushes alone, holding a chunk and
\* a tail: the one from_iter builds from the same elements
C17_Witness ==
    /\ CVecLive /\ op = "push" /\ evicted = None
    /\ cvec.cache = Cached_default
    /\ cvec.compressed_storage # <<>> /\ cvec.uncompressed_buffer # <<>>
    /\ CHUNK_ELEMS >= 2
    /\ reference # Reverse(reference)
    /\ cvec = CVec_from_iter(reference, CHUNK_ELEMS, COMPRESSION_LEVEL).c

\* C16: with chunk capacity 9 and quality 0, once the integers 0..10 have
\* been pushed in order, len() == 10, exactly one chunk is stored, of the 9
\* elements 0, ..., 8, and the tail holds the 1 element 9; a read at index 0
\* then returns 0 and a read at index 9 returns 9; and successive pops
\* return 9, 8, ..., 0 and then None.
C16_ConcreteScenario ==
    [][/\ (op' = "push" /\ Len(reference') = 10) =>
            /\ CVec_len(cvec', 9) = 10
            /\ Len(cvec'.compressed_storage) = 1
            /\ decompress(cvec'.compressed_storage[1]).val = [i \in 1..9 |-> i - 1]
            /\ cvec'.uncompressed_buffer = <<9>>
       /\ (op' \in Reads /\ CVec_len(cvec, 9) = 10 /\ arg' \in {0, 9}) =>
            /\ panic' = NoPanic
            /\ ret' = Some(arg')
       /\ (op' = "pop") =>
            /\ panic' = NoPanic
            /\ ret' = IF CVec_len(cvec, 9) = 0 THEN None
                      ELSE Some(CVec_len(cvec, 9) - 1)
            /\ CVec_len(cvec', 9) = IF CVec_len(cvec, 9) = 0 THEN 0
                                    ELSE CVec_len(cvec, 9) - 1]_vars

\* the pop after the ten that emptied the container, returning None
C16_Witness ==
    /\ CHUNK_ELEMS = 9 /\ COMPRESSION_LEVEL = 0
    /\ op = "pop" /\ ret = None /\ ref_ret = None
    /\ CVec_is_empty(cvec) /\ reference = <<>>
    /\ panic = NoPanic

\* the elements a Deque holds, front to back
Deque_elements(d) ==
    d.uncompressed_buffer_front
    \o Concat([i \in 1..Len(d.compressed_storage) |->
                  decompress(d.compressed_storage[i]).val])
    \o d.uncompressed_buffer_back

\* C18: driven by the same push_back, push_front, pop_back and pop_front
\* calls in any order, for any chunk size, each pop on the Deque returns
\* what the pop on the VecDeque returns (None exactly when it is empty),
\* and after every call len() is the VecDeque's length and is_empty() holds
\* exactly when that length is 0; the Deque holds the VecDeque's elements
\* in its order.
C18_DequeMatchesVecDeque ==
    (target = "Deque") =>
        /\ panic = NoPanic
        /\ Deque_len(deque) = Len(reference)
        /\ Deque_is_empty(deque) <=> (Len(reference) = 0)
        /\ Deque_elements(deque) = reference
        /\ (op \in {"pop_back", "pop_front"}) => ret = ref_ret

\* a pop_back that decoded the only chunk, next to a non-empty front
\* buffer, returning an element other than the one at the front
C18_Witness ==
    /\ target = "Deque" /\ op = "pop_back" /\ is_some(ret)
    /\ deque.chunk_size = 2
    /\ deque.uncompressed_buffer_front # <<>>
    /\ Len(deque.uncompressed_buffer_back) = 1
    /\ deque.compressed_storage = <<>>
    /\ unwrap(ret) # Head(reference)
    /\ Len(reference) = 2

\* the elements a Stack holds, bottom to top
Stack_elements(s) ==
    Concat([i \in 1..Len(s.compressed_storage) |->
               decompress(s.compressed_storage[i]).val])
    \o s.uncompressed_buffer

\* C19: driven by the same pushes and pops in any order, for any chunk size
\* in elements, 0 included, each pop on the Stack returns what the pop on
\* the Vec returns (None exactly when it is empty) and after every call
\* len() is the Vec's length.
C19_StackMatchesVec ==
    (target = "Stack" /\ ~into_iter) =>
        /\ panic = NoPanic
        /\ Stack_len(stack) = Len(reference)
        /\ Stack_is_empty(stack) <=> (Len(reference) = 0)
        /\ Stack_elements(stack) = reference
        /\ (op = "pop") => ret = ref_ret

\* a pop on a Stack of chunk size 0 that decoded a one-element chunk and
\* left others stored, over elements that are not all equal
C19_Witness ==
    /\ target = "Stack" /\ ~into_iter /\ op = "pop" /\ is_some(ret)
    /\ stack.chunk_size = 0
    /\ Len(stack.compressed_storage) >= 2
    /\ stack.uncompressed_buffer = <<>>
    /\ unwrap(ret) # Last(reference)

\* C20: for a Stack or Deque created with ChunkSize::SizeElements(n), after
\* every completed call (the pops of the Stack used as an iterator
\* included) each uncompressed buffer holds at most n elements.
C20_BuffersWithinChunkSize ==
    /\ (target = "Stack") =>
          Len(stack.uncompressed_buffer) <= stack.chunk_size
    /\ (target = "Deque") =>
          /\ Len(deque.uncompressed_buffer_front) <= deque.chunk_size
          /\ Len(deque.uncompressed_buffer_back) <= deque.chunk_size

\* a Deque of chunk size 3 whose front buffer was refilled from a chunk by a
\* pop_front, its back buffer holding an element too
C20_Witness ==
    /\ target = "Deque" /\ op = "pop_front" /\ is_some(ret)
    /\ deque.chunk_size = 3
    /\ Len(deque.uncompressed_buffer_front) = 2
    /\ deque.uncompressed_buffer_back # <<>>


\* C21: no Stack or Deque call panics: new(), new_with_options for every
\* ChunkSize and every element size, the pushes, the pops, len and is_empty
\* all complete, and the length counter never goes below zero.
C21_StackAndDequeNeverPanic ==
    target \in {"Stack", "Deque"} =>
        /\ panic = NoPanic
        /\ Stack_len(stack) >= 0 /\ Deque_len(deque) >= 0
        /\ Stack_is_empty(stack) \in BOOLEAN
        /\ Deque_is_empty(deque) \in BOOLEAN


\* the elements the Vec holds where chunk k of the CVec lies
ReferenceChunk(k) ==
    SubSeq(reference, k * CHUNK_ELEMS + 1, (k + 1) * CHUNK_ELEMS)

\* C22: with the exclusive or the shared cache, whenever the cache slot is
\* filled with index k, k is below the number of stored chunks and the cached
\* elements are the decoded contents of the chunk now stored at index k,
\* which are the Vec's elements k*CHUNK_ELEMS .. (k+1)*CHUNK_ELEMS - 1.
C22_CacheMirrorsStoredChunk ==
    (CVecLive /\ is_some(cvec.cache.data)) =>
        LET k == cvec.cache.index IN
        /\ strategy \in {"Cached", "RcCached"}
        /\ k < Len(cvec.compressed_storage)
        /\ unwrap(cvec.cache.data) = decompress(cvec.compressed_storage[k + 1]).val
        /\ unwrap(cvec.cache.data) = ReferenceChunk(k)

\* the slot still mirrors the first chunk after a pop has removed the second
\* one and decoded it into the tail
C22_Witness ==
    /\ CVecLive /\ op = "pop" /\ is_some(ret)
    /\ CHUNK_ELEMS >= 2
    /\ Len(cvec.uncompressed_buffer) = CHUNK_ELEMS - 1
    /\ Len(cvec.compressed_storage) = 1
    /\ is_some(cvec.cache.data) /\ cvec.cache.index = 0
    /\ unwrap(cvec.cache.data) = ReferenceChunk(0)


\* C23: after every completed call the tail is shorter than CHUNK_ELEMS, the
\* number of chunks is len() div CHUNK_ELEMS and the tail length is len() mod
\* CHUNK_ELEMS; a push that brings the tail to CHUNK_ELEMS stores one more
\* chunk and leaves the tail empty, a pop that decodes a chunk removes it
\* and leaves CHUNK_ELEMS - 1 elements in the tail.
C23_TailShorterThanChunk ==
    [][(CVecLive /\ CVecLive') =>
        /\ Len(cvec'.uncompressed_buffer) < CHUNK_ELEMS
        /\ Len(cvec'.compressed_storage)
               = CVec_len(cvec', CHUNK_ELEMS) \div CHUNK_ELEMS
        /\ Len(cvec'.uncompressed_buffer)
               = CVec_len(cvec', CHUNK_ELEMS) % CHUNK_ELEMS
        /\ Len(cvec'.compressed_storage) = Len(reference') \div CHUNK_ELEMS
        /\ (op' = "push" /\ Len(cvec.uncompressed_buffer) + 1 = CHUNK_ELEMS) =>
              /\ cvec'.uncompressed_buffer = <<>>
              /\ Len(cvec'.compressed_storage)
                     = Len(cvec.compressed_storage) + 1
        /\ (op' = "pop" /\ cvec.uncompressed_buffer = <<>>
                         /\ cvec.compressed_storage # <<>>) =>
              /\ Len(cvec'.uncompressed_buffer) = CHUNK_ELEMS - 1
              /\ Len(cvec'.compressed_storage)
                     = Len(cvec.compressed_storage) - 1
      ]_vars

\* a push that has stored the second chunk of several elements and emptied
\* the tail
C23_Witness ==
    /\ CVecLive /\ op = "push"
    /\ CHUNK_ELEMS >= 2
    /\ cvec.uncompressed_buffer = <<>>
    /\ Len(cvec.compressed_storage) = 2
    /\ Len(reference) = 2 * CHUNK_ELEMS


\* C24: after any pushes and pops, pops that decode a chunk into the tail
\* and pushes that store it again included, every stored chunk decodes to
\* exactly CHUNK_ELEMS elements, and chunk j to the Vec's elements
\* j*CHUNK_ELEMS .. (j+1)*CHUNK_ELEMS - 1 in push order.
C24_ChunksHoldChunkElems ==
    CVecLive =>
        \A j \in 0..(Len(cvec.compressed_storage) - 1) :
            LET d == decompress(cvec.compressed_storage[j + 1]) IN
            /\ d.panic = NoPanic
            /\ Len(d.val) = CHUNK_ELEMS
            /\ d.val = ReferenceChunk(j)
            /\ decompress_CacheLine(cvec.compressed_storage[j + 1],
                                    CHUNK_ELEMS).panic = NoPanic

\* a push that has stored a chunk again at the index where a pop had decoded
\* one into the tail, with other elements than that chunk held
C24_Witness ==
    /\ CVecLive /\ op = "push"
    /\ CHUNK_ELEMS >= 2
    /\ cvec.uncompressed_buffer = <<>>
    /\ is_some(evicted)
    /\ unwrap(evicted).index = Len(cvec.compressed_storage) - 1
    /\ unwrap(evicted).data # ReferenceChunk(unwrap(evicted).index)


\* C25 as stated: in any interleaving of pushes and pops, the number of
\* chunks encoded so far times CHUNK_ELEMS never exceeds the number of push
\* calls made so far.
C25_OneEncodePerChunkElemsPushes ==
    CVecLive => counts.encodes * CHUNK_ELEMS <= counts.pushes

\* C25 amended: a push encodes at most one chunk, and exactly when it brings
\* the tail to CHUNK_ELEMS; every pop that decodes a chunk leaves
\* CHUNK_ELEMS - 1 elements one push away from the next encode, so the
\* chunks encoded times CHUNK_ELEMS never exceed the push calls plus
\* CHUNK_ELEMS - 1 for each chunk a pop has decoded; with no such pop the
\* stated bound holds.
C25_EncodesBoundedByPushesAndDecodes ==
    CVecLive =>
        /\ counts.encodes <= counts.pushes
        /\ counts.encodes * CHUNK_ELEMS
              <= counts.pushes + (CHUNK_ELEMS - 1) * counts.decodes
        /\ counts.decodes = 0 =>
              counts.encodes * CHUNK_ELEMS <= counts.pushes
        /\ counts.encodes - counts.decodes = Len(cvec.compressed_storage)

\* a push has encoded the chunk that a pop had decoded: more chunks encoded
\* than one per CHUNK_ELEMS pushes
C25_Witness ==
    /\ CVecLive /\ op = "push"
    /\ counts.decodes > 0
    /\ cvec.uncompressed_buffer = <<>>
    /\ counts.encodes * CHUNK_ELEMS > counts.pushes


\* C26: a pop empties the cache slot exactly when it removes a stored chunk
\* (the tail was empty) and the slot mirrors the index of that chunk; a pop
\* that removes no chunk, or removes chunk k while the slot mirrors another
\* chunk or is empty, leaves the slot as it was.
C26_PopEmptiesSlotOfRemovedChunk ==
    [][(CVecLive /\ op' = "pop") =>
        LET removes == /\ cvec.uncompressed_buffer = <<>>
                       /\ cvec.compressed_storage # <<>>
            k == Len(cvec.compressed_storage) - 1
            mirrors == is_some(cvec.cache.data) /\ cvec.cache.index = k IN
        /\ (removes /\ mirrors) =>
              /\ cvec'.cache.data = None
              /\ \A j \in 0..MaxLen : ~is_cached(strategy, cvec'.cache, j)
        /\ ~(removes /\ mirrors) => cvec'.cache = cvec.cache
        /\ removes <=> Len(cvec'.compressed_storage) = k
      ]_vars

\* a pop has removed the chunk the slot mirrored and emptied the slot
C26_Witness ==
    /\ CVecLive /\ op = "pop" /\ is_some(ret)
    /\ CHUNK_ELEMS >= 2
    /\ Len(cvec.uncompressed_buffer) = CHUNK_ELEMS - 1
    /\ is_some(evicted)
    /\ unwrap(evicted).index = Len(cvec.compressed_storage)
    /\ unwrap(evicted).index = 1
    /\ cvec.cache.data = None


\* the chunk indices a cache slot can be asked about
ChunkIndices == 0..MaxLen \cup {USIZE_MAX}

\* C27: the cache holds at most one decoded chunk: a get_ref or a get that
\* misses on chunk k replaces whatever the slot held, so that afterwards
\* is_cached(k) is true, is_cached(j) is false for every other j, and the
\* slot holds the decoded chunk k.
C27_MissReplacesTheSlot ==
    [][(/\ CVecLive /\ op' \in {"get_ref", "get"}
        /\ arg' \div CHUNK_ELEMS < Len(cvec.compressed_storage)
        /\ ~is_cached(strategy, cvec.cache, arg' \div CHUNK_ELEMS)) =>
        LET k == arg' \div CHUNK_ELEMS IN
        /\ panic' = NoPanic
        /\ is_cached(strategy, cvec'.cache, k)
        /\ \A j \in ChunkIndices \cup {cvec.cache.index} :
              j # k => ~is_cached(strategy, cvec'.cache, j)
        /\ cvec'.cache.data = Some(decompress(cvec.compressed_storage[k + 1]).val)
      ]_vars

\* a cached read of the second chunk, whose elements differ from the first
\* chunk's, now mirrored by the slot
C27_Witness ==
    /\ CVecLive /\ op \in {"get_ref", "get"}
    /\ arg \div CHUNK_ELEMS = 1
    /\ Len(cvec.compressed_storage) = 2
    /\ is_cached(strategy, cvec.cache, 1)
    /\ ~is_cached(strategy, cvec.cache, 0)
    /\ ReferenceChunk(0) # ReferenceChunk(1)
    /\ cvec.cache.data = Some(ReferenceChunk(1))


\* the cache slot holds a decoded chunk under index k
Mirrors(cache, k) == is_some(cache.data) /\ cache.index = k

\* the read the step makes, with the number of chunks it decodes
CachedRead ==
    IF op' = "get_ref" THEN get_ref(cvec, arg', CHUNK_ELEMS)
    ELSE get(cvec, arg', CHUNK_ELEMS)

\* C28: a get_ref, or a get on the shared cache, at an index in chunk k
\* while the slot mirrors chunk k decodes nothing and leaves the slot as it
\* is; a chunk is decoded only on a miss, and then once; a slot that mirrors
\* chunk k keeps mirroring it until a cached read of another chunk or a pop
\* that removes chunk k, so consecutive cached reads within one chunk decode
\* it at most once.
C28_NoDecodeOnHit ==
    [][CVecLive =>
        /\ op' \in {"get_ref", "get"} =>
              LET k == arg' \div CHUNK_ELEMS
                  r == CachedRead IN
              /\ cvec' = r.c /\ ret' = r.ret /\ panic' = r.panic
              /\ IF k >= Len(cvec.compressed_storage) THEN r.decodes = 0
                 ELSE IF Mirrors(cvec.cache, k)
                 THEN r.decodes = 0 /\ cvec'.cache = cvec.cache
                 ELSE r.decodes = 1
              /\ (/\ op \in {"get_ref", "get"}
                  /\ arg \div CHUNK_ELEMS = k
                  /\ k < Len(cvec.compressed_storage)) => r.decodes = 0
        /\ \A k \in ChunkIndices :
              (/\ Mirrors(cvec.cache, k)
               /\ op' # "roundtrip"
               /\ ~(/\ op' \in {"get_ref", "get"}
                    /\ arg' \div CHUNK_ELEMS # k
                    /\ arg' \div CHUNK_ELEMS < Len(cvec.compressed_storage))
               /\ ~(/\ op' \in {"pop", "into_iter_next"}
                    /\ cvec.uncompressed_buffer = <<>>
                    /\ Len(cvec.compressed_storage) = k + 1))
              => Mirrors(cvec'.cache, k)
      ]_vars

\* a cached read of the second element of the second chunk, which the slot
\* mirrors
C28_Witness ==
    /\ CVecLive /\ op \in {"get_ref", "get"}
    /\ arg \div CHUNK_ELEMS = 1 /\ arg % CHUNK_ELEMS = 1
    /\ Len(cvec.compressed_storage) = 2
    /\ Mirrors(cvec.cache, 1)
    /\ ret = Some(reference[arg + 1])


\* C29: on a CVecRc, when a get returns, no shared and no exclusive borrow
\* of the cache slot is outstanding; so gets at any indices, in the same or
\* in different chunks, in any order with pushes and pops, never abort on a
\* borrow conflict, and each returns the Vec's element.
C29_GetLeavesNoBorrow ==
    (CVecLive /\ strategy = "RcCached") =>
        /\ cvec.cache.borrow = 0
        /\ panic.kind \notin {"already_borrowed", "already_mutably_borrowed"}
        /\ panic = NoPanic
        /\ op = "get" => ret = ref_ret

\* a get that has refilled the slot with the second chunk, after a pop had
\* removed the chunk the slot mirrored
C29_Witness ==
    /\ CVecLive /\ strategy = "RcCached" /\ op = "get"
    /\ arg \div CHUNK_ELEMS = 1
    /\ Len(cvec.compressed_storage) = 2
    /\ is_some(evicted)
    /\ Mirrors(cvec.cache, 1)
    /\ cvec.cache.borrow = 0
    /\ ret = Some(reference[arg + 1])


\* C30 as stated: creating a lazy handle decodes nothing, and a handle that
\* has been dereferenced has performed its fill exactly once, however many
\* times it was dereferenced and whatever other handles were dereferenced in
\* between.
C30_FillExactlyOncePerHandle ==
    \A h \in DOMAIN entries :
        /\ entries[h].derefs = 0 => entries[h].fills = 0
        /\ entries[h].derefs >= 1 => entries[h].fills = 1

\* C30 amended: creating a lazy handle leaves the container and its cache
\* slot as they are and decodes nothing; each dereference of the handle
\* fills the slot exactly when the slot does not mirror the handle's chunk
\* at that moment (not at all if it already does, again if another chunk's
\* handle was dereferenced in between), at most once per dereference;
\* afterwards the slot mirrors the chunk with no borrow outstanding and the
\* element read is the Vec's.
C30_FillOnEveryMissingDereference ==
    [][/\ op' = "get_compressed" =>
             /\ cvec' = cvec
             /\ \A h \in DOMAIN entries' \ DOMAIN entries :
                   entries'[h].fills = 0 /\ entries'[h].derefs = 0
       /\ op' = "entry_borrow" =>
             \A h \in DOMAIN entries :
                 IF entries'[h].derefs = entries[h].derefs + 1
                 THEN /\ entries'[h].fills = entries[h].fills
                            + (IF Mirrors(cvec.cache, entries[h].entry.index)
                               THEN 0 ELSE 1)
                      /\ Mirrors(cvec.cache, entries[h].entry.index)
                            => cvec'.cache = cvec.cache
                      /\ Mirrors(cvec'.cache, entries[h].entry.index)
                      /\ cvec'.cache.borrow = 0
                      /\ panic' = NoPanic
                      /\ ret' = Some(reference[entries[h].idx + 1])
                 ELSE entries'[h] = entries[h]
       /\ \A h \in DOMAIN entries' : entries'[h].fills <= entries'[h].derefs
      ]_vars

\* a handle that has filled the slot twice, another handle having been
\* dereferenced in between, next to a handle that was dereferenced without
\* filling
C30_Witness ==
    /\ op = "entry_borrow"
    /\ \E h \in DOMAIN entries : entries[h].fills = 2
    /\ \E h \in DOMAIN entries :
          entries[h].derefs >= 1 /\ entries[h].fills < entries[h].derefs


\* C31: stored chunks are immutable and the chunk list changes only at its
\* end: a push leaves every stored chunk as it is and appends one chunk at
\* most, a pop (or a step of the owning iterator) leaves all chunks but the
\* last as they are and removes the last one at most, and no read and no
\* step of a borrowing iteration changes the chunk list.
C31_ChunkListChangesAtItsEnd ==
    [][target = "CVec" =>
        LET old == cvec.compressed_storage
            new == cvec'.compressed_storage IN
        /\ op' = "push" =>
              \/ new = old
              \/ Len(new) = Len(old) + 1 /\ SubSeq(new, 1, Len(old)) = old
        /\ op' \in {"pop", "into_iter_next"} =>
              \/ new = old
              \/ old # <<>> /\ new = Front(old)
        /\ op' \in Reads \cup {"iter", "iter_next", "iter_drop", "into_iter"} =>
              new = old
      ]_vars

\* a pop has removed the second of two chunks whose contents differ, the
\* first being still stored
C31_Witness ==
    /\ CVecLive /\ op = "pop" /\ is_some(ret)
    /\ CHUNK_ELEMS >= 2
    /\ Len(cvec.uncompressed_buffer) = CHUNK_ELEMS - 1
    /\ Len(cvec.compressed_storage) = 1
    /\ decompress(cvec.compressed_storage[1]).val = ReferenceChunk(0)
    /\ SubSeq(ReferenceChunk(0), 1, CHUNK_ELEMS - 1) # cvec.uncompressed_buffer


\* C32: reads never change the logical contents: get_uncached and the
\* borrowing iterator leave the whole CVec (chunk list, tail, cache slot) as
\* it is, get_ref and get change nothing but the cache slot, so len() and
\* the element at every index are the same before and after any read.
C32_ReadsKeepTheContents ==
    [][(target = "CVec" /\ ~into_iter) =>
        /\ op' \in {"get_uncached", "iter", "iter_next", "iter_drop"} =>
              cvec' = cvec
        /\ op' \in {"get_ref", "get"} =>
              /\ cvec'.compressed_storage = cvec.compressed_storage
              /\ cvec'.uncompressed_buffer = cvec.uncompressed_buffer
        /\ op' \in Reads \cup {"iter", "iter_next", "iter_drop"} =>
              /\ CVec_len(cvec', CHUNK_ELEMS) = CVec_len(cvec, CHUNK_ELEMS)
              /\ CVec_is_empty(cvec') = CVec_is_empty(cvec)
              /\ \A i \in Indices :
                    get_uncached(cvec', i, CHUNK_ELEMS).ret
                      = get_uncached(cvec, i, CHUNK_ELEMS).ret
              /\ reference' = reference
      ]_vars

\* a cached read has filled the slot with the stored chunk of several
\* elements, next to a tail that holds an element
C32_Witness ==
    /\ CVecLive /\ op \in {"get_ref", "get"}
    /\ CHUNK_ELEMS >= 2
    /\ arg \div CHUNK_ELEMS = 0
    /\ Len(cvec.compressed_storage) = 1
    /\ cvec.uncompressed_buffer # <<>>
    /\ Mirrors(cvec.cache, 0)
    /\ ret = Some(reference[arg + 1])


\* the CVec that pushing the elements of xs onto a new container gives
Pushed(xs) == push_all(CVec_default, xs, CHUNK_ELEMS, COMPRESSION_LEVEL)

\* C33: for two CVecs of the same chunk capacity, quality and cache
\* strategy, c1 == c2 holds exactly when they hold the same sequence of
\* elements, whatever pushes, pops and reads produced them and whatever
\* their caches hold: a CVec that any history has produced equals the CVec
\* that pushes alone build from a sequence xs exactly when xs is the
\* sequence it holds, and == is symmetric.
C33_EqIsSameSequence ==
    CVecLive =>
        \A xs \in InputSequences :
            LET other == Pushed(xs) IN
            /\ CVec_eq(cvec, other) <=> (xs = reference)
            /\ CVec_eq(other, cvec) <=> (xs = reference)

\* a CVec that a pop has taken a chunk from, with the slot mirroring its
\* first chunk: it equals the CVec that pushes alone build, whose slot is
\* empty
C33_Witness ==
    /\ CVecLive /\ op = "pop" /\ is_some(ret)
    /\ CHUNK_ELEMS >= 2
    /\ Len(cvec.uncompressed_buffer) = CHUNK_ELEMS - 1
    /\ Mirrors(cvec.cache, 0)
    /\ CVec_eq(cvec, Pushed(reference))
    /\ cvec # Pushed(reference)


\* C34 as stated: the serialized form of a container carries its
\* configuration with the tail and the chunk bytes, so that a reconstruction
\* from those bytes that succeeds yields a container of the configuration of
\* the original.
C34_SerializedFormCarriesConfiguration ==
    [][(op' \in {"roundtrip", "deserialize_as"} /\ panic' = NoPanic) =>
          CHUNK_ELEMS' = CHUNK_ELEMS]_vars

\* C34 amended: the serialized form carries the chunk bytes and the tail,
\* and neither the cache nor the configuration: the reconstructed container
\* has the chunk list and the tail of the original and an empty cache slot,
\* and the configuration of the type it is reconstructed as; reconstructed
\* as the type of the original it equals the original, reconstructed as the
\* type of another chunk capacity it is accepted as well, its chunks still
\* holding the element count of the original capacity.
C34_SerializedFormIsChunksAndTail ==
    [][(op' \in {"roundtrip", "deserialize_as"}) =>
        /\ panic' = NoPanic
        /\ cvec'.compressed_storage = cvec.compressed_storage
        /\ cvec'.uncompressed_buffer = cvec.uncompressed_buffer
        /\ cvec'.cache = Cached_default
        /\ DOMAIN cvec' = {"compressed_storage", "uncompressed_buffer", "cache"}
        /\ CVec_to_stdvec(cvec)
              = CVec_to_stdvec([cvec EXCEPT !.cache = Cached_default])
        /\ CVec_from_bytes(CVec_to_stdvec(cvec)).ok
        /\ op' = "roundtrip" =>
              CHUNK_ELEMS' = CHUNK_ELEMS /\ CVec_eq(cvec', cvec)
        /\ op' = "deserialize_as" =>
              /\ CHUNK_ELEMS' # CHUNK_ELEMS
              /\ \A i \in 1..Len(cvec'.compressed_storage) :
                    Len(decompress(cvec'.compressed_storage[i]).val)
                      = CHUNK_ELEMS
      ]_vars

\* a container of a chunk and a tail has been reconstructed as the type of
\* another chunk capacity than the one its chunk was stored under
C34_Witness ==
    /\ CVecLive /\ op = "deserialize_as" /\ panic = NoPanic
    /\ cvec.compressed_storage # <<>>
    /\ cvec.uncompressed_buffer # <<>>
    /\ Len(decompress(cvec.compressed_storage[1]).val) # CHUNK_ELEMS
    /\ cvec.cache = Cached_default


\* C35: two Deques created with the same options that hold the same
\* sequence of elements compare equal, whatever push_back, push_front,
\* pop_back and pop_front calls produced each of them: the Deque that any
\* such calls have produced equals the Deque of the same options that
\* push_back alone builds from the elements it holds.
C35_DequesOfSameElementsAreEqual ==
    (target = "Deque" /\ panic = NoPanic) =>
        LET other == Deque_push_back_all(
                         Deque_new_with_options(deque.chunk_size,
                                                deque.compression_level),
                         Deque_elements(deque)) IN
        /\ Deque_elements(other) = Deque_elements(deque)
        /\ Deque_eq(deque, other)

====
